---- MODULE Spec2Model ----
(***************************************************************************)
(* Provisioning engine of chezmoi-a-la-carte                               *)
(* (internal/app/provision/provision.go, cmd/provisioner/main.go).         *)
(*                                                                         *)
(* Strings that the code only compares or concatenates are TLA+ strings.   *)
(* Strings that the code inspects character by character (resolved         *)
(* installer values) are sequences of one-character strings; Str turns     *)
(* such a sequence into a TLA+ string.                                     *)
(***************************************************************************)
EXTENDS Integers, Sequences, FiniteSets, TLC

VARIABLES
    Manifest,        \* Provisioner.Manifest: key -> SoftwareEntry
    ManifestRaw,     \* Provisioner.ManifestRaw: NilMap or key -> raw entry map
    System,          \* Provisioner.System: NilSys or [os, arch, id, headless]
    Runner,          \* kind of the ExecRunner behind Provisioner.Runner
    InstallerOrder,  \* Provisioner.InstallerOrder
    LazyOnly,        \* Provisioner.LazyOnly
    DryRun,          \* Provisioner.DryRun
    DryRunLog,       \* Provisioner.DryRunLog
    Errors,          \* Provisioner.Errors
    LogFile,         \* Provisioner.LogFile: "" or the path of the log file
    keys,            \* argument of the last PlanProvision call
    installed,       \* argument of the last PlanProvision call
    expanded,        \* expandedKeys local of the last PlanProvision call
    plan,            \* plan returned by PlanProvision / passed to ExecutePlan
    planErr,         \* error returned by the last PlanProvision call
    pc,              \* position of the caller in PlanProvision / ExecutePlan
    idx,             \* number of plan instructions ExecutePlan has been through
    errs,            \* errs local of ExecutePlan
    ret,             \* value returned by the last finished operation
    nExec,           \* number of ExecutePlan calls started
    runnerCalls,     \* Run calls the Runner received in the current operation
    spawned,         \* processes the Runner started in the current operation
    stdout,          \* lines printed to standard output in the current operation
    logText,         \* lines of the file Provisioner.LogFile names
    running,         \* plan positions whose Runner.Run call has not returned
    outputs,         \* output and error the Runner gives each package query
    bundles,         \* paths of the application bundles that exist
    wrappers,        \* wrapper files: path -> content and executable bit
    postLog,         \* per finished PostInstall: its Run calls, the files after
    model,           \* the TUI model: logs, status, cursor, userScrolled, summary
    logChan,         \* content of the buffered channel model.logChan
    goroutine,       \* position of the provisioning goroutine of model.Init
    timer,           \* the tea.Tick command pending: "tick", "quit" or "off"
    dispatched,      \* every message sent on logChan so far, in order of sending
    flags,           \* provisioner CLI flags
    cliPc            \* position of the provisioner CLI

provVars == <<Manifest, ManifestRaw, System, Runner, InstallerOrder, LazyOnly,
              DryRun, DryRunLog, Errors, LogFile>>
planVars == <<keys, installed, expanded, plan, planErr>>
execVars == <<pc, idx, errs, ret, nExec>>
portVars == <<runnerCalls, spawned, stdout, logText, running, outputs>>
cliVars  == <<flags, cliPc>>
postVars == <<bundles, wrappers, postLog>>
tuiVars  == <<model, logChan, goroutine, timer, dispatched>>
vars == <<provVars, planVars, execVars, portVars, cliVars, postVars, tuiVars>>

----------------------------------------------------------------------------
(* Bounds of the model *)

\* longest Deps list of a drawn manifest entry
MaxDeps == 2
\* longest request list passed to PlanProvision
MaxReq == 2
\* longest plan passed to ExecutePlan
MaxPlan == 3
\* number of ExecutePlan calls on one Provisioner
MaxRuns == 2
\* number of keys of a drawn raw entry whose value is not a plain string
MaxOther == 1
\* longest output of a package-manager query, in lines
MaxLines == 2
\* number of PostInstall calls on one Provisioner
MaxPost == 2
\* capacity of model.logChan (100 in initialModel)
LogChanCap == 2
\* number of messages the Runner dispatches during ExecutePlan
MaxOut == 2
\* lines of the log panel (const logPanelHeight = 20)
logPanelHeight == 2

----------------------------------------------------------------------------
(* Values *)

Nil == "<nil>"

\* Go error values: nil, an error with a message, the error a Runner
\* returned from its call number at, and the errors errors.Join wraps
NoErr == [nil |-> TRUE, msg |-> "", errs |-> <<>>, at |-> 0]
Err(msg) == [nil |-> FALSE, msg |-> msg, errs |-> <<>>, at |-> 0]
RunErr(msg, at) == [nil |-> FALSE, msg |-> msg, errs |-> <<>>, at |-> at]

\* what an operation returned: its error and, if any, its value
Returned(op, err, val) == [op |-> op, err |-> err, val |-> val]
NothingReturned == Returned("none", NoErr, <<>>)
EmptyMap == [k \in {} |-> Nil]
\* a Go map that may be nil: m is empty when it is
NilMap == [nil |-> TRUE, m |-> EmptyMap]
MapOf(f) == [nil |-> FALSE, m |-> f]
\* a nil SystemInfo
NilSys == [present |-> FALSE, os |-> "", arch |-> "", id |-> "", headless |-> FALSE]

\* key names the drawn manifests and requests use
KeyNames == {"a", "b", "c"}

RECURSIVE Str(_)
\* the Go string made of the characters cs
Str(cs) == IF cs = <<>> THEN "" ELSE Head(cs) \o Str(Tail(cs))

RECURSIVE SeqsUpTo(_, _)
\* all sequences over S of length at most n
SeqsUpTo(S, n) ==
    IF n = 0 THEN {<<>>}
    ELSE LET shorter == SeqsUpTo(S, n - 1)
         IN shorter \cup {Append(s, e) : s \in shorter, e \in S}

Range(s) == {s[i] : i \in 1..Len(s)}

\* raw (untyped) manifest values: interface{} holding a string, a list or
\* something else (a YAML number)
StrVal(cs) == [t |-> "str", s |-> cs, l |-> <<>>]
ListVal(vs) == [t |-> "list", s |-> <<>>, l |-> vs]
NumVal == [t |-> "num", s |-> <<>>, l |-> <<>>]

----------------------------------------------------------------------------
(* Manifest entries (internal/app: SoftwareEntry) *)

\* yaml tags of the StringOrSlice installer fields of SoftwareEntry
TypedInstallerFields ==
    {"brew", "apt", "pacman", "choco", "go", "snap", "port", "scoop", "yay",
     "apk", "dnf", "pkg", "cask", "flatpak", "mas", "nix", "pkg-termux",
     "emerge", "nix-env", "binary:darwin", "binary:linux", "binary:windows",
     "xbps", "zypper", "cargo", "pipx"}
\* yaml tags of the string metadata fields of SoftwareEntry
MetaStringFields == {"_desc", "_docs", "_github", "_home", "_name", "_short"}
\* yaml tags of the StringOrSlice metadata fields of SoftwareEntry
MetaListFields == {"_bin", "_groups"}

\* a SoftwareEntry: inst maps the installer fields that are set to their
\* string lists, every other typed field is the zero value
Entry(deps, script, appMarker, lazy, inst) ==
    [Deps |-> deps, Script |-> script, App |-> appMarker, Lazy |-> lazy,
     Inst |-> inst]

\* yaml.Marshal(entry) followed by yaml.Unmarshal into map[string]interface{}:
\* every tagged field becomes a key; a StringOrSlice becomes a list of
\* strings (the empty list when nil), a string field a string.  The fields
\* Deps, Script, App and Lazy are used by provision.go but their tags are
\* not part of the sources, they are left out of the map.
MarshalEntry(entry) ==
    [k \in TypedInstallerFields \cup MetaStringFields \cup MetaListFields |->
        IF k \in MetaStringFields THEN StrVal(<<>>)
        ELSE IF k \in DOMAIN entry.Inst
             THEN ListVal([i \in 1..Len(entry.Inst[k]) |-> StrVal(entry.Inst[k][i])])
             ELSE ListVal(<<>>)]

----------------------------------------------------------------------------
(* Installer key resolver *)

\* PriorityKeys, but with an installer the OS family keys come before the
\* osId keys
PriorityKeys_familyFirst(prefix, installer, osId, osType, osArch) ==
    IF installer # ""
    THEN << prefix \o ":" \o installer \o ":" \o osType \o ":" \o osArch,
            prefix \o ":" \o installer \o ":" \o osType,
            prefix \o ":" \o installer \o ":" \o osId \o ":" \o osArch,
            prefix \o ":" \o installer \o ":" \o osId,
            prefix \o ":" \o installer \o ":" \o osArch,
            prefix \o ":" \o installer,
            prefix >>
    ELSE << prefix \o ":" \o osId \o ":" \o osArch,
            prefix \o ":" \o osId,
            prefix \o ":" \o osType \o ":" \o osArch,
            prefix \o ":" \o osType,
            prefix \o ":" \o osArch,
            prefix >>

\* PriorityKeys, but without an installer the bare prefix comes first
PriorityKeys_bareFirst(prefix, installer, osId, osType, osArch) ==
    IF installer # ""
    THEN << prefix \o ":" \o installer \o ":" \o osId \o ":" \o osArch,
            prefix \o ":" \o installer \o ":" \o osId,
            prefix \o ":" \o installer \o ":" \o osType \o ":" \o osArch,
            prefix \o ":" \o installer \o ":" \o osType,
            prefix \o ":" \o installer \o ":" \o osArch,
            prefix \o ":" \o installer,
            prefix >>
    ELSE << prefix,
            prefix \o ":" \o osId \o ":" \o osArch,
            prefix \o ":" \o osId,
            prefix \o ":" \o osType \o ":" \o osArch,
            prefix \o ":" \o osType,
            prefix \o ":" \o osArch >>

\* the key chain getFieldByPriority walks, most specific first
PriorityKeys(prefix, installer, osId, osType, osArch) ==
    IF installer # ""
    THEN << prefix \o ":" \o installer \o ":" \o osId \o ":" \o osArch,
            prefix \o ":" \o installer \o ":" \o osId,
            prefix \o ":" \o installer \o ":" \o osType \o ":" \o osArch,
            prefix \o ":" \o installer \o ":" \o osType,
            prefix \o ":" \o installer \o ":" \o osArch,
            prefix \o ":" \o installer,
            prefix >>
    ELSE << prefix \o ":" \o osId \o ":" \o osArch,
            prefix \o ":" \o osId,
            prefix \o ":" \o osType \o ":" \o osArch,
            prefix \o ":" \o osType,
            prefix \o ":" \o osArch,
            prefix >>

\* UsableValue, but only a string counts
UsableValue_stringOnly(v) == v.t = "str"

\* v is a string, or a non-empty list whose first element is a string
UsableValue(v) ==
    \/ v.t = "str"
    \/ v.t = "list" /\ Len(v.l) > 0 /\ v.l[1].t = "str"

StringOf(v) == IF v.t = "str" THEN v.s ELSE v.l[1].s

RECURSIVE scanKeys(_, _)
\* scanKeys, but the first key the entry has ends the search
scanKeys_stopAtPresent(entry, ks) ==
    IF ks = <<>> THEN [s |-> <<>>, ok |-> FALSE]
    ELSE IF Head(ks) \in DOMAIN entry
         THEN (IF UsableValue(entry[Head(ks)])
               THEN [s |-> StringOf(entry[Head(ks)]), ok |-> TRUE]
               ELSE [s |-> <<>>, ok |-> FALSE])
         ELSE scanKeys(entry, Tail(ks))

\* the "for _, k := range keys" loop of getFieldByPriority
scanKeys(entry, ks) ==
    IF ks = <<>> THEN [s |-> <<>>, ok |-> FALSE]
    ELSE IF Head(ks) \in DOMAIN entry /\ UsableValue(entry[Head(ks)])
         THEN [s |-> StringOf(entry[Head(ks)]), ok |-> TRUE]
         ELSE scanKeys(entry, Tail(ks))

getFieldByPriority(entry, prefix, installer, osId, osType, osArch) ==
    scanKeys(entry, PriorityKeys(prefix, installer, osId, osType, osArch))

----------------------------------------------------------------------------
(* Plan builder *)

Instruction(type, package) == [Type |-> type, Package |-> package]

\* shouldSkipInstalled, but skipping the keys that are not installed
shouldSkipInstalled_inverted(key, inst) ==
    ~inst.nil /\ key \in DOMAIN inst.m /\ ~inst.m[key]

\* installed != nil && installed[key]: a key the map lacks reads as false
shouldSkipInstalled(key, inst) ==
    ~inst.nil /\ key \in DOMAIN inst.m /\ inst.m[key]

\* shouldSkipHeadless, but skipping the entries without an App marker
shouldSkipHeadless_noApp(entry) ==
    System.present /\ System.headless /\ entry.App = ""

shouldSkipHeadless(entry) ==
    System.present /\ System.headless /\ entry.App # ""

\* shouldSkipLazy, but an entry is also skipped when one of its Deps is an
\* entry that is not lazy
shouldSkipLazy_withDeps(entry) ==
    LazyOnly /\ (\/ ~entry.Lazy
                 \/ \E d \in Range(entry.Deps) :
                       d \in DOMAIN Manifest /\ ~Manifest[d].Lazy)

shouldSkipLazy(entry) == LazyOnly /\ ~entry.Lazy

\* addScriptInstructions, but only the first script is planned
addScriptInstructions_firstOnly(entry, p) ==
    IF entry.Script = <<>> THEN p
    ELSE Append(p, Instruction("script", entry.Script[1]))

addScriptInstructions(entry, p) ==
    p \o [i \in 1..Len(entry.Script) |-> Instruction("script", entry.Script[i])]

DefaultInstallerOrder ==
    << "apt", "brew", "pacman", "apk", "dnf", "zypper", "scoop", "choco",
       "go", "cargo", "pipx", "cask", "flatpak", "snap", "port", "yay", "pkg",
       "emerge", "nix", "mas", "xbps", "binary:darwin", "binary:linux",
       "binary:windows" >>

\* installer types whose value is cut down to its last word
LastWordInstallers == {"apt", "apk", "dnf", "zypper", "yum"}

\* unicode.IsSpace on the characters the model uses
IsSpace(c) == c \in {" ", "\t", "\n"}

RECURSIVE FieldsFrom(_, _, _)
\* strings.Fields: cur is the field being read, acc the fields read so far
FieldsFrom(cs, cur, acc) ==
    IF cs = <<>> THEN (IF cur = <<>> THEN acc ELSE Append(acc, cur))
    ELSE IF IsSpace(Head(cs))
         THEN FieldsFrom(Tail(cs), <<>>, IF cur = <<>> THEN acc ELSE Append(acc, cur))
         ELSE FieldsFrom(Tail(cs), Append(cur, Head(cs)), acc)

Fields(cs) == FieldsFrom(cs, <<>>, <<>>)

\* strings.Contains(val, " ")
ContainsSpace(cs) == \E i \in 1..Len(cs) : cs[i] = " "

\* the entry map addInstallerInstruction resolves against
entryMapOf(key, entry) ==
    IF ~ManifestRaw.nil
    THEN (IF key \in DOMAIN ManifestRaw.m THEN ManifestRaw.m[key] ELSE EmptyMap)
    ELSE MarshalEntry(entry)

sysID == IF System.present THEN System.id ELSE ""
sysOS == IF System.present THEN System.os ELSE ""
sysArch == IF System.present THEN System.arch ELSE ""

RECURSIVE tryInstallers(_, _, _)
\* tryInstallers, but the loop goes on after an installer type resolved
tryInstallers_noBreak(entryMap, order, p) ==
    IF order = <<>> THEN [plan |-> p, panic |-> FALSE]
    ELSE LET instType == Head(order)
             r == getFieldByPriority(entryMap, instType, "", sysID, sysOS, sysArch)
         IN IF ~r.ok THEN tryInstallers(entryMap, Tail(order), p)
            ELSE tryInstallers(entryMap, Tail(order),
                               Append(p, Instruction(instType, Str(r.s))))

\* the "for _, instType := range installerOrder" loop: the plan with the
\* instruction of the first installer type that resolves, or a panic when
\* the value of a last-word installer has a space but no field
tryInstallers(entryMap, order, p) ==
    IF order = <<>> THEN [plan |-> p, panic |-> FALSE]
    ELSE LET instType == Head(order)
             r == getFieldByPriority(entryMap, instType, "", sysID, sysOS, sysArch)
         IN IF ~r.ok THEN tryInstallers(entryMap, Tail(order), p)
            ELSE IF instType \in LastWordInstallers /\ ContainsSpace(r.s)
                 THEN (IF Fields(r.s) = <<>>
                       THEN [plan |-> p, panic |-> TRUE]
                       ELSE [plan |-> Append(p, Instruction(instType,
                                       Str(Fields(r.s)[Len(Fields(r.s))]))),
                             panic |-> FALSE])
                 ELSE [plan |-> Append(p, Instruction(instType, Str(r.s))),
                       panic |-> FALSE]

addInstallerInstruction(key, entry, p) ==
    tryInstallers(entryMapOf(key, entry),
                  IF Len(InstallerOrder) = 0 THEN DefaultInstallerOrder
                  ELSE InstallerOrder,
                  p)

NotFound(key) == "manifest key not found: " \o key

RECURSIVE expandLoop(_, _, _)
\* expandLoop, but a key is appended before its dependencies
expandLoop_keyFirst(ks, visited, result) ==
    IF ks = <<>> THEN [result |-> result, visited |-> visited, err |-> Nil]
    ELSE IF Head(ks) \in visited THEN expandLoop(Tail(ks), visited, result)
    ELSE IF Head(ks) \notin DOMAIN Manifest
    THEN [result |-> <<>>, visited |-> visited \cup {Head(ks)},
          err |-> NotFound(Head(ks))]
    ELSE \* depsExpanded, err := p.expandDeps(entry.Deps, visited)
         CHOOSE r \in
            { IF d.err # Nil
              THEN [result |-> <<>>, visited |-> d.visited, err |-> d.err]
              ELSE expandLoop(Tail(ks), d.visited,
                              (result \o <<Head(ks)>>) \o d.result) :
              d \in { IF Len(Manifest[Head(ks)].Deps) > 0
                      THEN expandLoop(Manifest[Head(ks)].Deps,
                                      visited \cup {Head(ks)}, <<>>)
                      ELSE [result |-> <<>>, visited |-> visited \cup {Head(ks)},
                            err |-> Nil] } } : TRUE

\* expandLoop, but a key already visited is appended again
expandLoop_emitVisited(ks, visited, result) ==
    IF ks = <<>> THEN [result |-> result, visited |-> visited, err |-> Nil]
    ELSE IF Head(ks) \in visited
         THEN expandLoop(Tail(ks), visited, Append(result, Head(ks)))
    ELSE IF Head(ks) \notin DOMAIN Manifest
    THEN [result |-> <<>>, visited |-> visited \cup {Head(ks)},
          err |-> NotFound(Head(ks))]
    ELSE \* depsExpanded, err := p.expandDeps(entry.Deps, visited)
         CHOOSE r \in
            { IF d.err # Nil
              THEN [result |-> <<>>, visited |-> d.visited, err |-> d.err]
              ELSE expandLoop(Tail(ks), d.visited,
                              (result \o d.result) \o <<Head(ks)>>) :
              d \in { IF Len(Manifest[Head(ks)].Deps) > 0
                      THEN expandLoop(Manifest[Head(ks)].Deps,
                                      visited \cup {Head(ks)}, <<>>)
                      ELSE [result |-> <<>>, visited |-> visited \cup {Head(ks)},
                            err |-> Nil] } } : TRUE

\* expandLoop, but a key the manifest lacks is passed over without an error
expandLoop_skipMissing(ks, visited, result) ==
    IF ks = <<>> THEN [result |-> result, visited |-> visited, err |-> Nil]
    ELSE IF Head(ks) \in visited THEN expandLoop(Tail(ks), visited, result)
    ELSE IF Head(ks) \notin DOMAIN Manifest
    THEN expandLoop(Tail(ks), visited \cup {Head(ks)}, result)
    ELSE \* depsExpanded, err := p.expandDeps(entry.Deps, visited)
         CHOOSE r \in
            { IF d.err # Nil
              THEN [result |-> <<>>, visited |-> d.visited, err |-> d.err]
              ELSE expandLoop(Tail(ks), d.visited,
                              (result \o d.result) \o <<Head(ks)>>) :
              d \in { IF Len(Manifest[Head(ks)].Deps) > 0
                      THEN expandLoop(Manifest[Head(ks)].Deps,
                                      visited \cup {Head(ks)}, <<>>)
                      ELSE [result |-> <<>>, visited |-> visited \cup {Head(ks)},
                            err |-> Nil] } } : TRUE

\* the "for _, key := range keys" loop of expandDeps: result is the local
\* result so far; the visited map is returned with the result, as the
\* recursive calls share it
expandLoop(ks, visited, result) ==
    IF ks = <<>> THEN [result |-> result, visited |-> visited, err |-> Nil]
    ELSE IF Head(ks) \in visited THEN expandLoop(Tail(ks), visited, result)
    ELSE IF Head(ks) \notin DOMAIN Manifest
    THEN [result |-> <<>>, visited |-> visited \cup {Head(ks)},
          err |-> NotFound(Head(ks))]
    ELSE \* depsExpanded, err := p.expandDeps(entry.Deps, visited)
         CHOOSE r \in
            { IF d.err # Nil
              THEN [result |-> <<>>, visited |-> d.visited, err |-> d.err]
              ELSE expandLoop(Tail(ks), d.visited,
                              (result \o d.result) \o <<Head(ks)>>) :
              d \in { IF Len(Manifest[Head(ks)].Deps) > 0
                      THEN expandLoop(Manifest[Head(ks)].Deps,
                                      visited \cup {Head(ks)}, <<>>)
                      ELSE [result |-> <<>>, visited |-> visited \cup {Head(ks)},
                            err |-> Nil] } } : TRUE

expandDeps(ks, visited) == expandLoop(ks, visited, <<>>)

\* Runner.Run(cmd, args...) made while planning, when a Runner is set
note(cmd, text) == IF Runner # "nil" THEN << <<cmd, text>> >> ELSE <<>>

\* planForKey, but the package-manager instruction of a key is added before
\* its script instructions
planForKey_installerFirst(key, inst, p) ==
    IF key \notin DOMAIN Manifest
    THEN [plan |-> p, err |-> NotFound(key), calls |-> <<>>, panic |-> FALSE]
    ELSE IF \/ shouldSkipInstalled(key, inst)
            \/ shouldSkipHeadless(Manifest[key])
            \/ shouldSkipLazy(Manifest[key])
    THEN [plan |-> p, err |-> Nil, calls |-> <<>>, panic |-> FALSE]
    ELSE LET r == addInstallerInstruction(key, Manifest[key], p)
         IN [plan |-> addScriptInstructions(Manifest[key], r.plan), err |-> Nil,
             panic |-> r.panic, calls |-> <<>>]

\* planForKey: the plan, the error, the Run calls made, and whether the
\* installer selection panicked
planForKey(key, inst, p) ==
    IF key \notin DOMAIN Manifest
    THEN [plan |-> p, err |-> NotFound(key), calls |-> <<>>, panic |-> FALSE]
    ELSE LET entry == Manifest[key]
         IN IF shouldSkipInstalled(key, inst)
            THEN [plan |-> p, err |-> Nil, panic |-> FALSE,
                  calls |-> note("info", "Skipping " \o key \o ": already installed")]
            ELSE IF shouldSkipHeadless(entry)
            THEN [plan |-> p, err |-> Nil, panic |-> FALSE,
                  calls |-> note("info", "Skipping " \o key \o ": headless mode")]
            ELSE IF shouldSkipLazy(entry)
            THEN [plan |-> p, err |-> Nil, panic |-> FALSE,
                  calls |-> note("info", "Skipping " \o key \o ": not marked lazy")]
            ELSE LET r == addInstallerInstruction(key, entry,
                                                  addScriptInstructions(entry, p))
                 IN [plan |-> r.plan, err |-> Nil, panic |-> r.panic,
                     calls |-> <<>>]

RECURSIVE planKeys(_, _, _, _)
\* the "for _, key := range expandedKeys" loop of PlanProvision
planKeys(ks, inst, p, calls) ==
    IF ks = <<>> THEN [plan |-> p, err |-> Nil, calls |-> calls, panic |-> FALSE]
    ELSE LET r == planForKey(Head(ks), inst, p)
         IN IF r.panic \/ r.err # Nil
            THEN [plan |-> <<>>, err |-> r.err, calls |-> calls \o r.calls,
                  panic |-> r.panic]
            ELSE planKeys(Tail(ks), inst, r.plan, calls \o r.calls)

\* what PlanProvision(keys, installed) computes: the returned plan and
\* error, the expanded keys, the Run calls made
planProvision(ks, inst) ==
    LET e == expandDeps(ks, {})
        r == planKeys(e.result, inst, <<>>, <<>>)
    IN IF e.err # Nil
       THEN [plan |-> <<>>, err |-> e.err, expanded |-> <<>>, panic |-> FALSE,
             calls |-> note("section", "Planning")]
       ELSE IF r.panic \/ r.err # Nil
       THEN [plan |-> <<>>, err |-> r.err, expanded |-> e.result,
             panic |-> r.panic,
             calls |-> note("section", "Planning") \o r.calls]
       ELSE [plan |-> r.plan, err |-> Nil, expanded |-> e.result, panic |-> FALSE,
             calls |-> note("section", "Planning") \o r.calls \o
                       [i \in 1..(IF Runner # "nil" THEN Len(r.plan) ELSE 0) |->
                           <<"info", "Will install: " \o r.plan[i].Type \o " "
                                     \o r.plan[i].Package>>]]

----------------------------------------------------------------------------
(* Command execution port *)

\* "section" and "info" are progress annotations, never commands
IsAnnotation(argv) == argv[1] \in {"section", "info"}

----------------------------------------------------------------------------
(* Drawn inputs *)

\* the SystemInfo of the package tests (fakeSystemInfo)
TestSystem(headless) ==
    [present |-> TRUE, os |-> "linux", arch |-> "amd64", id |-> "ubuntu",
     headless |-> headless]

\* an entry whose apt package is named after its key
PlainEntry(key, deps) == Entry(deps, <<>>, "", FALSE, [f \in {"apt"} |-> << <<key>> >>])

\* request lists passed to PlanProvision
Requests == SeqsUpTo(KeyNames, MaxReq)

\* installed sets passed to PlanProvision: nil, or a map over the keys
InstalledSets == {NilMap} \cup {MapOf(f) : f \in [KeyNames -> BOOLEAN]}

\* Deps lists: up to MaxDeps keys, none named twice
DepLists == {d \in SeqsUpTo(KeyNames, MaxDeps) : Cardinality(Range(d)) = Len(d)}

\* manifests over every subset of the keys with every Deps list up to
\* MaxDeps (self-dependencies, cycles and missing keys included)
GraphManifests ==
    UNION {{[k \in D |-> PlainEntry(k, deps[k])] :
                deps \in [D -> DepLists]} :
           D \in SUBSET KeyNames}

InitPlanVars ==
    /\ keys = <<>>
    /\ installed = NilMap
    /\ expanded = <<>>
    /\ plan = <<>>
    /\ planErr = Nil

InitExecVars ==
    /\ pc = "idle"
    /\ idx = 0
    /\ errs = <<>>
    /\ ret = NothingReturned
    /\ nExec = 0

\* a Runner without loaded query outputs
NoOutputs == EmptyMap

InitPortVars ==
    /\ runnerCalls = <<>>
    /\ spawned = <<>>
    /\ stdout = <<>>
    /\ logText = <<>>
    /\ running = {}
    /\ outputs = NoOutputs

NoFlags == [dryRun |-> FALSE, noTUI |-> FALSE, lazy |-> FALSE]

InitCliVars ==
    /\ flags = NoFlags
    /\ cliPc = "library"

\* a logMsg and the doneMsg
Log(level, text) == [Level |-> level, Text |-> text]
doneMsg == [Level |-> "", Text |-> "doneMsg{}"]

\* initialModel(): the fields of the model that Update reads or writes
initialModel ==
    [logs |-> <<>>, status |-> "Ready to provision...", cursor |-> 0,
     userScrolled |-> FALSE, attempted |-> 0, succeeded |-> 0, failed |-> 0,
     failedPkgs |-> <<>>]

\* the model before Init is called: no goroutine, no tick pending
InitTuiVars ==
    /\ model = initialModel
    /\ logChan = <<>>
    /\ goroutine = [pc |-> "none", n |-> 0]
    /\ timer = "off"
    /\ dispatched = <<>>

\* no bundle, no wrapper file, PostInstall not yet run
InitPostVars ==
    /\ bundles = {}
    /\ wrappers = EmptyMap
    /\ postLog = <<>>

\* NewProvisioner(sys, manifest, runner) with a test Runner: every other
\* field is the zero value
NewProvisioner(sys, manifest, runner) ==
    /\ System = sys
    /\ Manifest = manifest
    /\ Runner = runner
    /\ ManifestRaw = NilMap
    /\ InstallerOrder = <<>>
    /\ LazyOnly = FALSE
    /\ DryRun = FALSE
    /\ DryRunLog = <<>>
    /\ Errors = <<>>
    /\ LogFile = ""

InitExpand ==
    /\ \E m \in GraphManifests : NewProvisioner(TestSystem(FALSE), m, "fake")
    /\ InitPlanVars /\ InitExecVars /\ InitPostVars /\ InitTuiVars /\ InitPortVars /\ InitCliVars

\* dependency shapes of the manifests drawn for planning: the chain
\* a -> b, c; b -> c, the cycle a <-> b, and a -> b -> c with c missing
ChainDeps == [k \in {"a", "b", "c"} |->
                 IF k = "a" THEN <<"b", "c">> ELSE IF k = "b" THEN <<"c">> ELSE <<>>]
CycleDeps == [k \in {"a", "b", "c"} |->
                 IF k = "a" THEN <<"b">> ELSE IF k = "b" THEN <<"a">> ELSE <<>>]
MissingDeps == [k \in {"a", "b"} |-> IF k = "a" THEN <<"b">> ELSE <<"c">>]
PlanShapes == {ChainDeps, CycleDeps, MissingDeps}

\* scripts and installer fields of the entries drawn for planning: a has an
\* apt package, b an apt and a brew package and one script, c a brew
\* package and two scripts
ProfileScript(k) ==
    IF k = "a" THEN <<>>
    ELSE IF k = "b" THEN <<"echo b">> ELSE <<"echo c1", "echo c2">>
ProfileInst(k) ==
    IF k = "a" THEN [f \in {"apt"} |-> << <<"a">> >>]
    ELSE IF k = "b"
         THEN [f \in {"apt", "brew"} |->
                  IF f = "apt" THEN << <<"b">> >> ELSE << <<"b", "w">> >>]
         ELSE [f \in {"brew"} |-> << <<"c">> >>]

\* App marker and Lazy flag of a drawn entry
EntryKinds == {[App |-> ap, Lazy |-> lz] : ap \in {"", "SomeApp"}, lz \in BOOLEAN}

PlanManifests ==
    UNION {{[k \in DOMAIN deps |->
                Entry(deps[k], ProfileScript(k), kind[k].App, kind[k].Lazy,
                      ProfileInst(k))] :
            kind \in {f \in [DOMAIN deps -> EntryKinds] :
                         "c" \in DOMAIN f => f["c"].App = ""}} :
           deps \in PlanShapes}

\* a Provisioner built by NewProvisioner whose caller then set LazyOnly and
\* InstallerOrder; the System is absent (as the CLI passes it) or the test
\* probe, headless or not
InitPlan ==
    /\ \E m \in PlanManifests,
          sys \in {NilSys, TestSystem(FALSE), TestSystem(TRUE)} :
            /\ System = sys
            /\ Manifest = m
    /\ Runner = "fake"
    /\ ManifestRaw = NilMap
    /\ InstallerOrder \in {<<>>, <<"brew", "apt">>}
    /\ LazyOnly \in BOOLEAN
    /\ DryRun = FALSE
    /\ DryRunLog = <<>>
    /\ Errors = <<>>
    /\ LogFile = ""
    /\ InitPlanVars /\ InitExecVars /\ InitPostVars /\ InitTuiVars /\ InitPortVars /\ InitCliVars

----------------------------------------------------------------------------
(* Operations *)

\* a Run call as the Runner saw it: what it was given and what it returned
Call(argv, err) == [argv |-> argv, err |-> err]

\* PlanProvision(keys, installed), called once on a Provisioner that has
\* not been used yet
PlanProvision(ks, inst) ==
    /\ UNCHANGED <<postVars, tuiVars>>
    /\ pc = "idle"
    /\ ret.op = "none"
    /\ \E r \in {planProvision(ks, inst)} :
          /\ keys' = ks
          /\ installed' = inst
          /\ expanded' = r.expanded
          /\ plan' = r.plan
          /\ planErr' = r.err
          /\ runnerCalls' = [i \in 1..Len(r.calls) |-> Call(r.calls[i], NoErr)]
          /\ pc' = IF r.panic THEN "panic" ELSE "idle"
          /\ ret' = IF r.panic THEN Returned("panic", NoErr, <<>>)
                    ELSE Returned("PlanProvision",
                                  IF r.err = Nil THEN NoErr ELSE Err(r.err),
                                  r.plan)
    /\ spawned' = <<>>
    /\ stdout' = <<>>
    /\ UNCHANGED <<provVars, idx, errs, nExec, logText, running, outputs, cliVars>>

\* PlanProvision has just returned
Planned == ret.op = "PlanProvision"

NextExpand == \E ks \in Requests : PlanProvision(ks, NilMap)

\* dependency expansion: PlanProvision called without an installed set on
\* manifests of every dependency shape
SpecExpand == InitExpand /\ [][NextExpand]_vars

NextPlan == \E ks \in Requests, inst \in InstalledSets : PlanProvision(ks, inst)

\* plan building: PlanProvision on manifests whose entries differ in App
\* marker, Lazy flag, scripts and installer fields
SpecPlan == InitPlan /\ [][NextPlan]_vars

----------------------------------------------------------------------------
(* Installer resolution: drawn inputs and operations *)

\* the probes of the package tests: customSys, macSys and fakeSystemInfo
CustomSys == [present |-> TRUE, os |-> "linux", arch |-> "x64", id |-> "debian",
              headless |-> FALSE]
MacSys == [present |-> TRUE, os |-> "darwin", arch |-> "x64", id |-> "darwin",
           headless |-> FALSE]
ProbeSystems ==
    {NilSys, CustomSys, MacSys, TestSystem(FALSE)}

\* the composite keys of a raw entry for the installer field apt, most
\* specific first, and for the metadata field _bin with installer apt
AptChain ==
    << "apt:debian:x64", "apt:debian", "apt:linux:x64", "apt:linux", "apt:x64",
       "apt" >>
BinChain ==
    << "_bin:apt:debian:x64", "_bin:apt:debian", "_bin:apt:linux:x64",
       "_bin:apt:linux", "_bin:apt:x64", "_bin:apt", "_bin" >>

FooX64 == <<"f", "o", "o", "-", "x", "6", "4">>
Foo == <<"f", "o", "o">>
FooApt == <<"f", "o", "o", "-", "a", "p", "t">>
FooBrew == <<"f", "o", "o", "-", "b", "r", "e", "w">>

\* the string a raw key holds: every key of an entry holds its own
RawString(k) ==
    IF k = "brew" THEN FooBrew
    ELSE IF k = "apt:debian:x64" THEN FooX64
    ELSE IF k = "apt" THEN Foo
    ELSE IF \E i \in 1..Len(AptChain) : AptChain[i] = k
         THEN <<"v", ToString(CHOOSE i \in 1..Len(AptChain) : AptChain[i] = k)>>
         ELSE <<"v", "a", "l",
                ToString(CHOOSE i \in 1..Len(BinChain) : BinChain[i] = k)>>

\* values of a raw key that are not a plain string: a list of two strings,
\* a number
OtherValue(k, kind) ==
    IF kind = "list" THEN ListVal(<<StrVal(RawString(k)), StrVal(<<"x">>)>>)
    ELSE NumVal

\* raw entries holding every key of K, at most MaxOther of them with a
\* value that is not a plain string
RawEntries(K) ==
    UNION {{[k \in K |-> IF k \in O THEN OtherValue(k, kind[k])
                         ELSE StrVal(RawString(k))] :
               kind \in [O -> {"list", "num"}]} :
           O \in {S \in SUBSET K : Cardinality(S) <= MaxOther}}

\* the values a raw key can hold, by kind: its string, a list that starts
\* with its string, a number, an empty list, a list that starts with a number
KindValue(k, kind) ==
    IF kind = "str" THEN StrVal(RawString(k))
    ELSE IF kind = "list" THEN ListVal(<<StrVal(RawString(k)), StrVal(<<"x">>)>>)
    ELSE IF kind = "num" THEN NumVal
    ELSE IF kind = "empty" THEN ListVal(<<>>)
    ELSE ListVal(<<NumVal, StrVal(RawString(k))>>)
ValueKinds == {"str", "list", "num", "empty", "numlist"}

\* raw entries over the most specific key of the Debian x64 chain and the
\* two least specific keys, each holding a value of any kind
MixedKeys == {"_bin:apt:debian:x64", "_bin:apt", "_bin"}
MixedEntries ==
    {[k \in MixedKeys |-> KindValue(k, kind[k])] : kind \in [MixedKeys -> ValueKinds]}

\* installer values with and without whitespace: a space or a tab between
\* two words, a leading space, a trailing space, a space alone, one word
SpacedValues ==
    {<<"x", " ", "f">>, <<"x", "\t", "f">>, <<" ", "f">>, <<"f", " ">>,
     <<" ">>, <<"f">>}

\* raw entries with the one installer key T holding such a value
SpacedEntries ==
    {[k \in {T} |-> StrVal(v)] : T \in {"apt", "dnf", "brew"}, v \in SpacedValues}

\* typed entries of the key a: no installer field, apt only, apt and brew;
\* without or with two scripts; without or with an App marker
NoInst == [f \in {} |-> <<>>]
TypedEntries ==
    {Entry(<<>>, script, ap, FALSE, inst) :
        script \in {<<>>, <<"echo foo", "echo bar">>},
        ap \in {"", "SomeApp"},
        inst \in {NoInst,
                  [f \in {"apt"} |-> <<Foo>>],
                  [f \in {"apt", "brew"} |->
                      IF f = "apt" THEN <<FooApt>> ELSE <<FooBrew>>]}}

\* a Provisioner for the one key a: either without a raw entry for a (no
\* ManifestRaw at all, or one that lacks a) and a typed entry, or with a
\* raw entry for a holding the apt keys and brew, the _bin keys, three _bin
\* keys with values of any kind, or one installer key with a spaced value
InitResolve ==
    /\ \/ /\ Manifest \in {[k \in {"a"} |-> e] : e \in TypedEntries}
          /\ ManifestRaw \in {NilMap, MapOf(EmptyMap)}
          /\ System \in ProbeSystems \cup {TestSystem(TRUE)}
          /\ LazyOnly \in BOOLEAN
          /\ InstallerOrder \in {<<>>, <<"brew", "apt">>}
       \/ /\ Manifest = [k \in {"a"} |-> Entry(<<>>, <<"echo foo">>, "", FALSE, NoInst)]
          /\ \/ /\ ManifestRaw \in
                      {MapOf([k \in {"a"} |-> m]) :
                          m \in RawEntries(Range(AptChain) \cup {"brew"})}
                /\ InstallerOrder \in {<<>>, <<"brew", "apt">>}
             \/ /\ ManifestRaw \in
                      {MapOf([k \in {"a"} |-> m]) : m \in RawEntries(Range(BinChain))}
                /\ InstallerOrder = <<>>
             \/ /\ ManifestRaw \in {MapOf([k \in {"a"} |-> m]) : m \in MixedEntries}
                /\ InstallerOrder = <<>>
          /\ System \in ProbeSystems
          /\ LazyOnly = FALSE
       \/ /\ Manifest = [k \in {"a"} |-> Entry(<<>>, <<>>, "", FALSE, NoInst)]
          /\ ManifestRaw \in {MapOf([k \in {"a"} |-> m]) : m \in SpacedEntries}
          /\ InstallerOrder = <<>>
          /\ System \in {NilSys, CustomSys}
          /\ LazyOnly = FALSE
    /\ Runner = "fake"
    /\ DryRun = FALSE
    /\ DryRunLog = <<>>
    /\ Errors = <<>>
    /\ LogFile = ""
    /\ InitPlanVars /\ InitExecVars /\ InitPostVars /\ InitTuiVars /\ InitPortVars /\ InitCliVars

\* delete(entryMap, k) by the owner of the raw manifest, between calls
DeleteRawKey(k) ==
    /\ UNCHANGED <<postVars, tuiVars>>
    /\ pc = "idle"
    /\ ret.op \in {"none", "getFieldByPriority"}
    /\ ~ManifestRaw.nil /\ "a" \in DOMAIN ManifestRaw.m
    /\ k \in DOMAIN ManifestRaw.m["a"]
    /\ ManifestRaw' =
          MapOf([key \in {"a"} |->
                    [j \in DOMAIN ManifestRaw.m["a"] \ {k} |-> ManifestRaw.m["a"][j]]])
    /\ UNCHANGED <<Manifest, System, Runner, InstallerOrder, LazyOnly, DryRun,
                   DryRunLog, Errors, LogFile, planVars, execVars, portVars,
                   cliVars>>

\* getFieldByPriority(ManifestRaw["a"], prefix, installer, ID, OS, Arch)
\* called directly, with the probe's strings: keys is the chain it walks
GetFieldByPriority(prefix, installer) ==
    /\ UNCHANGED <<postVars, tuiVars>>
    /\ pc = "idle"
    /\ ret.op \in {"none", "getFieldByPriority"}
    /\ ~ManifestRaw.nil /\ "a" \in DOMAIN ManifestRaw.m
    /\ \E r \in {getFieldByPriority(ManifestRaw.m["a"], prefix, installer,
                                    sysID, sysOS, sysArch)} :
          ret' = Returned("getFieldByPriority", NoErr,
                          IF r.ok THEN <<Str(r.s)>> ELSE <<>>)
    /\ keys' = PriorityKeys(prefix, installer, sysID, sysOS, sysArch)
    /\ UNCHANGED <<provVars, installed, expanded, plan, planErr, pc, idx, errs,
                   nExec, portVars, cliVars>>

NextResolve ==
    \/ \E inst \in {NilMap, MapOf([k \in {"a"} |-> TRUE])} :
          PlanProvision(<<"a">>, inst)
    \/ \E k \in Range(AptChain) \cup Range(BinChain) \cup {"brew"} : DeleteRawKey(k)
    \/ GetFieldByPriority("_bin", "apt")

\* installer resolution for one key: planning and direct resolver calls
\* over raw entries whose keys are removed one at a time
SpecResolve == InitResolve /\ [][NextResolve]_vars

----------------------------------------------------------------------------
(* Runners *)

RECURSIVE JoinWith(_, _)
\* strings.Join(parts, sep)
JoinWith(parts, sep) ==
    IF parts = <<>> THEN ""
    ELSE IF Len(parts) = 1 THEN parts[1]
    ELSE parts[1] \o sep \o JoinWith(Tail(parts), sep)

\* how a started command can end: it succeeds, it exits with a failure, or
\* it cannot be started at all
Outcomes == {"ok", "fail", "failEarly"}

\* buildExecCmd: the process tuiExecRunner starts for a command
buildExecCmd(argv) ==
    IF argv[1] = "apt"
    THEN <<"sudo", "env", "DEBIAN_FRONTEND=noninteractive", "apt-get", "-o",
           "DPkg::Options::=--force-confdef", "install", "-y",
           "--no-install-recommends", "--ignore-missing">> \o Tail(argv)
    ELSE IF argv[1] = "apk"
    THEN <<"sudo", "apk", "add", "--no-cache">> \o Tail(argv)
    ELSE IF argv[1] \in {"dnf", "yum"}
    THEN <<"sudo", argv[1], "install", "-y", "--setopt=skip_if_unavailable=True",
           "--setopt=skip_missing_names_on_install=True">> \o Tail(argv)
    ELSE IF argv[1] = "zypper"
    THEN <<"sudo", "zypper", "--non-interactive", "install", "-y">> \o Tail(argv)
    ELSE argv

\* the error a Runner returns for the command argv as its call number at
FailOf(argv, at) == RunErr("fail " \o JoinWith(argv, " "), at)

\* Run(cmd, args...) of the Runner of the given kind, the command ending
\* as outcome says: the error returned, the processes started and the
\* lines printed.  "fake" is the recording double of the package tests,
\* "dryRun", "real" and "tui" are dryRunRunner, realSystemRunner and
\* tuiExecRunner of the provisioner CLI.
RunEffect(kind, argv, outcome, at) ==
    IF IsAnnotation(argv)
    THEN [err |-> NoErr, spawn |-> <<>>, out |-> <<>>]
    ELSE IF kind = "dryRun"
    THEN [err |-> NoErr, spawn |-> <<>>,
          out |-> << "[dry-run] Would run: " \o argv[1] \o " "
                     \o JoinWith(Tail(argv), " ") >>]
    ELSE IF kind = "real" /\ argv[1] = "script" /\ Len(argv) > 1
    THEN [err |-> IF outcome = "ok" THEN NoErr ELSE FailOf(argv, at),
          spawn |-> IF outcome = "failEarly"
                    THEN << <<"chezmoi", "execute-template", "provision-script-raw">> >>
                    ELSE << <<"chezmoi", "execute-template", "provision-script-raw">>,
                            <<"bash", "provision-script-tmpl">> >>,
          out |-> <<>>]
    ELSE IF kind = "real"
    THEN [err |-> IF outcome = "ok" THEN NoErr ELSE FailOf(argv, at),
          spawn |-> IF outcome = "failEarly" THEN <<>> ELSE <<argv>>,
          out |-> <<>>]
    ELSE IF kind = "tui"
    THEN [err |-> IF outcome = "ok" THEN NoErr ELSE FailOf(argv, at),
          spawn |-> IF outcome = "failEarly" THEN <<>> ELSE <<buildExecCmd(argv)>>,
          out |-> <<>>]
    ELSE [err |-> IF outcome = "ok" THEN NoErr ELSE FailOf(argv, at),
          spawn |-> <<>>, out |-> <<>>]

----------------------------------------------------------------------------
(* Plan executor *)

\* logLine, but without the instruction type
logLine_packageOnly(inst) == inst.Package

\* logLine := inst.Type + " " + inst.Package
logLine(inst) == inst.Type \o " " \o inst.Package

\* the command ExecutePlan passes to Runner.Run for an instruction
RunArgs(inst) ==
    IF inst.Type = "script" THEN <<"script", inst.Package>>
    ELSE IF inst.Type \in {"apt", "apk", "dnf", "zypper", "yum"}
    THEN <<inst.Type, inst.Package>>
    ELSE IF inst.Type = "brew" THEN <<"brew", "install", inst.Package>>
    ELSE IF inst.Type = "go" THEN <<"go", "install", inst.Package>>
    ELSE <<inst.Type, inst.Package>>

\* if err != nil { errs = append(errs, err) }
collect(es, err) == IF err.nil THEN es ELSE Append(es, err)

\* nextIndex, but a failed instruction ends the loop
nextIndex_stopOnError(i, err) == IF err.nil THEN i + 1 ELSE Len(plan)

\* the loop goes on to the next instruction whatever err is
nextIndex(i, err) == i + 1

\* Join, but only the first error is kept
Join_firstOnly(es) ==
    IF es = <<>> THEN NoErr
    ELSE [nil |-> FALSE, msg |-> es[1].msg, errs |-> <<es[1]>>, at |-> 0]

\* errors.Join(errs...): nil when there is no error to join
Join(es) ==
    IF es = <<>> THEN NoErr
    ELSE [nil |-> FALSE, msg |-> JoinWith([i \in 1..Len(es) |-> es[i].msg], "\n"),
          errs |-> es, at |-> 0]

\* ExecutePlan(plan) up to the loop: an empty plan returns at once
ExecutePlanStart(p) ==
    /\ UNCHANGED <<postVars, tuiVars>>
    /\ pc = "idle"
    /\ nExec < MaxRuns
    /\ nExec' = nExec + 1
    /\ plan' = p
    /\ idx' = 0
    /\ errs' = <<>>
    /\ spawned' = <<>>
    /\ stdout' = <<>>
    /\ IF Len(p) = 0
       THEN /\ pc' = "idle"
            /\ ret' = Returned("ExecutePlan", NoErr, <<>>)
            /\ runnerCalls' = <<>>
       ELSE /\ pc' = "exec"
            /\ ret' = NothingReturned
            /\ runnerCalls' = IF Runner # "nil"
                              THEN <<Call(<<"section", "Installing">>, NoErr)>>
                              ELSE <<>>
    /\ UNCHANGED <<provVars, keys, installed, expanded, planErr, logText,
                   running, outputs, cliVars>>

\* Run returns only once the process it started has exited:
\* realSystemRunner.Run is c.Run(), tuiExecRunner.Run is c.Start(), the
\* streaming of both pipes to their end, and c.Wait(); the annotations and
\* the test Runners start no process and return at once
waitsForExit_never(kind) == FALSE
waitsForExit(kind) == TRUE

\* the loop over the plan reaches p.Runner.Run(...) for the next
\* instruction: the call begins
ExecutePlanRun ==
    /\ UNCHANGED <<postVars, tuiVars>>
    /\ pc = "exec"
    /\ idx < Len(plan)
    /\ ~DryRun /\ Runner # "nil"
    /\ pc' = "run"
    /\ running' = running \cup {idx + 1}
    /\ UNCHANGED <<provVars, planVars, idx, errs, ret, nExec, runnerCalls,
                   spawned, stdout, logText, outputs, cliVars>>

\* the rest of one iteration of the loop over the plan: the instruction is
\* logged in dry-run mode, Run on a nil Runner panics, and a Run call that
\* has begun returns with the outcome of its command
ExecutePlanStep(outcome) ==
    /\ UNCHANGED <<postVars, tuiVars>>
    /\ idx < Len(plan)
    /\ IF DryRun
       THEN /\ pc = "exec"
            /\ DryRunLog' = Append(DryRunLog, logLine(plan[idx + 1]))
            /\ idx' = idx + 1
            /\ UNCHANGED <<errs, runnerCalls, spawned, stdout, running, pc, ret>>
       ELSE IF Runner = "nil"
       THEN /\ pc = "exec"
            /\ pc' = "panic"
            /\ ret' = Returned("panic", NoErr, <<>>)
            /\ UNCHANGED <<DryRunLog, idx, errs, runnerCalls, spawned, stdout,
                           running>>
       ELSE \E e \in {RunEffect(Runner, RunArgs(plan[idx + 1]), outcome,
                                Len(runnerCalls) + 1)} :
               /\ runnerCalls' = Append(runnerCalls,
                                        Call(RunArgs(plan[idx + 1]), e.err))
               /\ spawned' = spawned \o e.spawn
               /\ stdout' = stdout \o e.out
               /\ errs' = collect(errs, e.err)
               /\ idx' = nextIndex(idx, e.err)
               /\ pc = "run"
               /\ pc' = "exec"
               /\ running' = IF waitsForExit(Runner) THEN running \ {idx + 1}
                             ELSE running
               /\ UNCHANGED <<DryRunLog, ret>>
    /\ UNCHANGED <<Manifest, ManifestRaw, System, Runner, InstallerOrder,
                   LazyOnly, DryRun, Errors, LogFile, planVars, nExec, logText,
                   outputs, cliVars>>

\* ExecutePlan after the loop: the closing annotation and the return value
ExecutePlanFinish ==
    /\ UNCHANGED <<postVars, tuiVars>>
    /\ pc = "exec"
    /\ idx >= Len(plan)
    /\ runnerCalls' = IF Runner # "nil"
                      THEN Append(runnerCalls, Call(<<"section", "Complete">>, NoErr))
                      ELSE runnerCalls
    /\ ret' = Returned("ExecutePlan", Join(errs), <<>>)
    /\ pc' = "idle"
    /\ UNCHANGED <<provVars, planVars, idx, errs, nExec, spawned, stdout,
                   logText, running, outputs, cliVars>>

\* AggregatedError(): nil, or the numbered block of p.Errors
RECURSIVE numbered(_, _)
numbered(es, i) ==
    IF i > Len(es) THEN ""
    ELSE "[" \o ToString(i) \o "] " \o es[i].msg \o "\n" \o numbered(es, i + 1)

aggregatedError(es) ==
    IF Len(es) = 0 THEN NoErr
    ELSE Err(ToString(Len(es)) \o " errors occurred:\n" \o numbered(es, 1))

AggregatedError ==
    /\ UNCHANGED <<postVars, tuiVars>>
    /\ pc = "idle"
    /\ ret' = Returned("AggregatedError", aggregatedError(Errors), <<>>)
    /\ UNCHANGED <<provVars, planVars, pc, idx, errs, nExec, portVars, cliVars>>

\* ClearErrors()
ClearErrors ==
    /\ UNCHANGED <<postVars, tuiVars>>
    /\ pc = "idle"
    /\ Errors' = <<>>
    /\ ret' = Returned("ClearErrors", NoErr, <<>>)
    /\ UNCHANGED <<Manifest, ManifestRaw, System, Runner, InstallerOrder,
                   LazyOnly, DryRun, DryRunLog, LogFile, planVars, pc, idx, errs,
                   nExec, portVars, cliVars>>

\* DryRunCommands(): a copy of the dry-run log
DryRunCommands ==
    /\ UNCHANGED <<postVars, tuiVars>>
    /\ pc = "idle"
    /\ ret' = Returned("DryRunCommands", NoErr, DryRunLog)
    /\ UNCHANGED <<provVars, planVars, pc, idx, errs, nExec, portVars, cliVars>>

\* ExecutePlan has just returned
Finished == ret.op = "ExecutePlan"

\* instructions of the plans passed to ExecutePlan
PlanInstructions ==
    {Instruction("apt", "foo"), Instruction("script", "echo bar")}

PlanInputs == SeqsUpTo(PlanInstructions, MaxPlan)

\* the manifest of the execution tests
ExecManifest ==
    [k \in KeyNames |-> PlainEntry(k, <<>>)]

\* values of Provisioner.LogFile: unset, or the path the test sets
LogFiles == {"", "provision-test-log.txt"}

\* a Provisioner built by NewProvisioner whose caller may have set DryRun
\* and LogFile
InitExec ==
    /\ System = TestSystem(FALSE)
    /\ Manifest = ExecManifest
    /\ Runner = "fake"
    /\ ManifestRaw = NilMap
    /\ InstallerOrder = <<>>
    /\ LazyOnly = FALSE
    /\ DryRun \in BOOLEAN
    /\ DryRunLog = <<>>
    /\ Errors = <<>>
    /\ LogFile \in LogFiles
    /\ InitPlanVars /\ InitExecVars /\ InitPostVars /\ InitTuiVars /\ InitPortVars /\ InitCliVars

NextExec ==
    \/ \E p \in PlanInputs : ExecutePlanStart(p)
    \/ ExecutePlanRun
    \/ \E outcome \in Outcomes : ExecutePlanStep(outcome)
    \/ ExecutePlanFinish
    \/ AggregatedError
    \/ ClearErrors
    \/ DryRunCommands

\* plan execution: ExecutePlan on plans of up to MaxPlan instructions, each
\* Run of the test Runner failing or not, followed by the accessors
SpecExec == InitExec /\ [][NextExec]_vars

----------------------------------------------------------------------------
(* Installed-package queries (GetInstalledPackages) *)

\* the package managers that are queried, in the order of the merges
ManagerNames == <<"dpkg", "brew", "pipx", "cargo", "npm">>

\* strings.HasPrefix, strings.TrimPrefix, strings.TrimSpace and
\* strings.Contains on the characters of a line
HasPrefix(cs, pre) == Len(cs) >= Len(pre) /\ SubSeq(cs, 1, Len(pre)) = pre
TrimPrefix(cs, pre) ==
    IF HasPrefix(cs, pre) THEN SubSeq(cs, Len(pre) + 1, Len(cs)) ELSE cs
TrimSpace(cs) ==
    LET I == {i \in 1..Len(cs) : ~IsSpace(cs[i])}
    IN IF I = {} THEN <<>>
       ELSE SubSeq(cs, CHOOSE i \in I : \A j \in I : i <= j,
                       CHOOSE i \in I : \A j \in I : j <= i)
Contains(cs, c) == \E i \in 1..Len(cs) : cs[i] = c

\* the character class [a-zA-Z0-9._-]
NameChars ==
    {"a", "b", "c", "d", "e", "f", "g", "h", "i", "j", "k", "l", "m",
    "n", "o", "p", "q", "r", "s", "t", "u", "v", "w", "x", "y", "z"}
    \cup {"A", "B", "C", "D", "E", "F", "G", "H", "I", "J", "K", "L", "M",
         "N", "O", "P", "Q", "R", "S", "T", "U", "V", "W", "X", "Y", "Z"}
    \cup {"0", "1", "2", "3", "4", "5", "6", "7", "8", "9", ".", "_", "-"}

\* the last position of the longest run of name characters that starts at i
RunEnd(cs, i) ==
    CHOOSE j \in i..Len(cs) :
        /\ \A k \in i..j : cs[k] \in NameChars
        /\ j = Len(cs) \/ cs[j + 1] \notin NameChars

\* pkgRe.FindStringSubmatch(line)[1] for ([a-zA-Z0-9._-]+)@ : the leftmost
\* run of name characters that an @ follows, as a list of one name, or the
\* empty list when nothing matches
FindName(cs) ==
    LET I == {i \in 1..Len(cs) :
                 /\ cs[i] \in NameChars
                 /\ RunEnd(cs, i) < Len(cs)
                 /\ cs[RunEnd(cs, i) + 1] = "@"}
    IN IF I = {} THEN <<>>
       ELSE LET i == CHOOSE x \in I : \A y \in I : x <= y
            IN <<SubSeq(cs, i, RunEnd(cs, i))>>

\* the name each parser takes from one line of output, as a list of at
\* most one name
aptName(line) ==
    IF HasPrefix(line, <<"i", "i", " ">>) /\ Len(Fields(line)) > 1
    THEN <<Fields(line)[2]>> ELSE <<>>
brewName(line) ==
    IF TrimSpace(line) # <<>> THEN <<TrimSpace(line)>> ELSE <<>>
pipxName(line) ==
    IF /\ HasPrefix(line, <<" ", " ", "-", " ">>)
       /\ TrimSpace(TrimPrefix(line, <<" ", " ", "-", " ">>)) # <<>>
    THEN <<TrimSpace(TrimPrefix(line, <<" ", " ", "-", " ">>))>> ELSE <<>>
cargoName(line) ==
    IF /\ line # <<>> /\ ~HasPrefix(line, <<" ">>) /\ Contains(line, " ")
       /\ Len(Fields(line)) > 0
    THEN <<Fields(line)[1]>> ELSE <<>>
npmName(line) ==
    IF Contains(line, "@") THEN FindName(line) ELSE <<>>

lineName(manager, line) ==
    IF manager = "dpkg" THEN aptName(line)
    ELSE IF manager = "brew" THEN brewName(line)
    ELSE IF manager = "pipx" THEN pipxName(line)
    ELSE IF manager = "cargo" THEN cargoName(line)
    ELSE npmName(line)

\* getAptInstalled .. getNpmInstalled on what runner.Output returned for
\* the manager's query: no name when it returned an error, otherwise the
\* names of the lines of its output
managerInstalled(manager, q) ==
    IF q.err THEN {}
    ELSE {Str(lineName(manager, q.out[i])[1]) :
             i \in {j \in 1..Len(q.out) : lineName(manager, q.out[j]) # <<>>}}

\* GetInstalledPackages, but an error of a query leaves the map empty
GetInstalled_abortOnError(outs) ==
    IF \E i \in 1..Len(ManagerNames) : outs[ManagerNames[i]].err
    THEN MapOf(EmptyMap)
    ELSE MapOf([n \in UNION {managerInstalled(ManagerNames[i], outs[ManagerNames[i]]) :
                                i \in 1..Len(ManagerNames)} |-> TRUE])

\* GetInstalledPackages(runner) on the results outs of the five queries:
\* the merged names, each mapped to true
GetInstalled(outs) ==
    MapOf([n \in UNION {managerInstalled(ManagerNames[i], outs[ManagerNames[i]]) :
                           i \in 1..Len(ManagerNames)} |-> TRUE])

\* output of the five queries on a host, as the lines bufio.Scanner yields
SampleOutput ==
    [m \in Range(ManagerNames) |->
        IF m = "dpkg"
        THEN << <<"i", "i", " ", " ", "f", "o", "o", " ", "1", ".", "0">>,
             <<"r", "c", " ", " ", "b", "a", "r", " ", "2", ".", "0">>,
             <<"i", "i", " ">> >>
        ELSE IF m = "brew"
        THEN << <<"b", "a", "t">>,
             <<>>,
             <<" ", "f", "d", " ">> >>
        ELSE IF m = "pipx"
        THEN << <<"v", "e", "n", "v", "s", " ", "x">>,
             <<" ", " ", "-", " ", "b", "l", "a", "c", "k">>,
             <<" ", " ", "-", " ", " ">> >>
        ELSE IF m = "cargo"
        THEN << <<"b", "a", "t", " ", "v", "0", ".", "2", "3", ".", "0", ":">>,
             <<" ", " ", " ", " ", "b", "a", "t">>,
             <<"f", "d", "-", "f", "i", "n", "d", " ", "v", "8", ".", "2", ".", "1", ":">> >>
        ELSE << <<"/", "l", "i", "b">>,
             <<"+", "-", "-", " ", "n", "p", "m", "@", "8", ".", "1", "9", ".", "2">>,
             <<"+", "-", "-", " ", "@", "x", "/", "z", "x", "@", "7", ".", "2", ".", "3">> >>]

\* what runner.Output can return for the query of manager m: a beginning
\* of the sample output of at most MaxLines lines, with or without an error
QueryResults(m) ==
    {[out |-> SubSeq(SampleOutput[m], 1, n), err |-> e] :
        n \in {k \in 0..MaxLines : k <= Len(SampleOutput[m])}, e \in BOOLEAN}

\* a Runner loaded with the results of the five queries, before the call
InitInstalled ==
    /\ Manifest = EmptyMap
    /\ ManifestRaw = NilMap
    /\ System = NilSys
    /\ Runner = "fake"
    /\ InstallerOrder = <<>>
    /\ LazyOnly = FALSE
    /\ DryRun = FALSE
    /\ DryRunLog = <<>>
    /\ Errors = <<>>
    /\ LogFile = ""
    /\ InitPlanVars /\ InitExecVars /\ InitPostVars /\ InitTuiVars /\ InitCliVars
    /\ runnerCalls = <<>>
    /\ spawned = <<>>
    /\ stdout = <<>>
    /\ logText = <<>>
    /\ running = {}
    /\ outputs \in [dpkg : QueryResults("dpkg"), brew : QueryResults("brew"),
                    pipx : QueryResults("pipx"), cargo : QueryResults("cargo"),
                    npm : QueryResults("npm")]

\* installed := GetInstalledPackages(runner)
QueryInstalledPackages ==
    /\ UNCHANGED <<postVars, tuiVars>>
    /\ pc = "idle"
    /\ ret.op = "none"
    /\ installed' = GetInstalled(outputs)
    /\ ret' = Returned("GetInstalledPackages", NoErr, <<>>)
    /\ UNCHANGED <<provVars, keys, expanded, plan, planErr, pc, idx, errs, nExec,
                   portVars, cliVars>>

NextInstalled == QueryInstalledPackages

\* one call of GetInstalledPackages on a loaded Runner
SpecInstalled == InitInstalled /\ [][NextInstalled]_vars

----------------------------------------------------------------------------
(* Post-install wrappers (PostInstall) *)

\* os.Getenv("HOME")
Home == "/home/u"

\* filepath.Join(os.Getenv("HOME"), ".local", "bin", family)
BinDir(family) == Home \o "/.local/bin/" \o family

\* a Run call of a wrapper helper and what executing it does to the wrapper
\* files: mkdir makes the directory, sh writes text to path, chmod marks
\* path executable
Step(argv, op, path, text) == [argv |-> argv, op |-> op, path |-> path, text |-> text]

\* handleFlatpakWrapper, but an empty wrapper-binary name is accepted
handleFlatpakWrapper_emptyBin(entryMap) ==
    LET val == getFieldByPriority(entryMap, "flatpak", "", sysID, sysOS, sysArch)
        bin == getFieldByPriority(entryMap, "_bin", "flatpak", sysID, sysOS, sysArch)
    IN IF ~val.ok \/ val.s = <<>> THEN <<>>
       ELSE IF ~bin.ok THEN <<>>
       ELSE LET binPath == BinDir("flatpak") \o "/" \o Str(bin.s)
            IN << Step(<<"mkdir", "-p", BinDir("flatpak")>>, "mkdir", BinDir("flatpak"), ""),
                  Step(<<"sh", "-c",
                         "echo '#!/usr/bin/env bash\\nflatpak run " \o Str(val.s)
                            \o " $*' > '" \o binPath \o "'">>,
                       "write", binPath,
                       "#!/usr/bin/env bash\\nflatpak run " \o Str(val.s) \o " $*"),
                  Step(<<"chmod", "+x", binPath>>, "chmod", binPath, "") >>

\* handleFlatpakWrapper: the Run calls it makes, in order
handleFlatpakWrapper(entryMap) ==
    LET val == getFieldByPriority(entryMap, "flatpak", "", sysID, sysOS, sysArch)
        bin == getFieldByPriority(entryMap, "_bin", "flatpak", sysID, sysOS, sysArch)
    IN IF ~val.ok \/ val.s = <<>> THEN <<>>
       ELSE IF ~bin.ok \/ bin.s = <<>> THEN <<>>
       ELSE LET binPath == BinDir("flatpak") \o "/" \o Str(bin.s)
            IN << Step(<<"mkdir", "-p", BinDir("flatpak")>>, "mkdir", BinDir("flatpak"), ""),
                  Step(<<"sh", "-c",
                         "echo '#!/usr/bin/env bash\\nflatpak run " \o Str(val.s)
                            \o " $*' > '" \o binPath \o "'">>,
                       "write", binPath,
                       "#!/usr/bin/env bash\\nflatpak run " \o Str(val.s) \o " $*"),
                  Step(<<"chmod", "+x", binPath>>, "chmod", binPath, "") >>

\* caskTriggered, but the App marker on macOS does not count
caskTriggered_caskOnly(entryMap, entry) ==
    getFieldByPriority(entryMap, "cask", "", sysID, sysOS, sysArch).ok

\* the first test of handleCaskWrapper: a cask value is found, or the
\* system ID is darwin and the entry has an App marker
caskTriggered(entryMap, entry) ==
    \/ getFieldByPriority(entryMap, "cask", "", sysID, sysOS, sysArch).ok
    \/ sysID = "darwin" /\ entry.App # ""

\* locateBundle, but the user's applications directory is looked at first
locateBundle_homeFirst(appName, fs) ==
    IF (Home \o "/Applications/" \o appName) \in fs
    THEN <<Home \o "/Applications/" \o appName>>
    ELSE IF ("/Applications/" \o appName) \in fs
    THEN <<"/Applications/" \o appName>>
    ELSE <<>>

\* the two os.Stat calls of handleCaskWrapper on the existing paths fs: the
\* bundle path as a list of one path, or the empty list when neither exists
locateBundle(appName, fs) ==
    IF ("/Applications/" \o appName) \in fs
    THEN <<"/Applications/" \o appName>>
    ELSE IF (Home \o "/Applications/" \o appName) \in fs
    THEN <<Home \o "/Applications/" \o appName>>
    ELSE <<>>

\* handleCaskWrapper: the Run calls it makes, in order
handleCaskWrapper(entryMap, entry, fs) ==
    LET bin == getFieldByPriority(entryMap, "_bin", "cask", sysID, sysOS, sysArch)
        appName == getFieldByPriority(entryMap, "_app", "cask", sysID, sysOS, sysArch)
    IN IF ~caskTriggered(entryMap, entry) THEN <<>>
       ELSE IF ~bin.ok \/ bin.s = <<>> THEN <<>>
       ELSE IF ~appName.ok \/ appName.s = <<>> THEN <<>>
       ELSE IF locateBundle(Str(appName.s), fs) = <<>> THEN <<>>
       ELSE LET binPath == BinDir("cask") \o "/" \o Str(bin.s)
                appPath == locateBundle(Str(appName.s), fs)[1]
            IN << Step(<<"mkdir", "-p", BinDir("cask")>>, "mkdir", BinDir("cask"), ""),
                  Step(<<"sh", "-c",
                         "echo '#!/usr/bin/env bash\\nopen '" \o appPath
                            \o "' $*' > '" \o binPath \o "'">>,
                       "write", binPath,
                       "#!/usr/bin/env bash\\nopen " \o appPath \o " $*"),
                  Step(<<"chmod", "+x", binPath>>, "chmod", binPath, "") >>

RECURSIVE postInstall(_, _)
\* the "for key := range p.Manifest" loop of PostInstall, for the order ks
\* the map iteration takes
postInstall(ks, fs) ==
    IF ks = <<>> THEN <<>>
    ELSE LET entry == Manifest[Head(ks)]
             entryMap == entryMapOf(Head(ks), entry)
         IN handleFlatpakWrapper(entryMap) \o handleCaskWrapper(entryMap, entry, fs)
               \o postInstall(Tail(ks), fs)

\* the orders a map iteration over the keys S can take
KeyOrders(S) ==
    {ks \in SeqsUpTo(S, Cardinality(S)) :
        Len(ks) = Cardinality(S) /\ Range(ks) = S}

\* the wrapper files after a Runner that executes its commands ran step
execStep(files, step) ==
    IF step.op = "write"
    THEN [q \in DOMAIN files \cup {step.path} |->
             IF q = step.path
             THEN [text |-> step.text,
                   exec |-> IF q \in DOMAIN files THEN files[q].exec ELSE FALSE]
             ELSE files[q]]
    ELSE IF step.op = "chmod" /\ step.path \in DOMAIN files
    THEN [q \in DOMAIN files |->
             IF q = step.path THEN [text |-> files[q].text, exec |-> TRUE]
             ELSE files[q]]
    ELSE files

RECURSIVE execSteps(_, _)
execSteps(files, steps) ==
    IF steps = <<>> THEN files
    ELSE execSteps(execStep(files, Head(steps)), Tail(steps))

\* PostInstall(): every entry of the Manifest, in the order the map
\* iteration yields the keys; the test Runner records the commands, the
\* system Runner also executes them; PostInstall always returns nil
PostInstall ==
    /\ pc = "idle"
    /\ Len(postLog) < MaxPost
    /\ \E ks \in KeyOrders(DOMAIN Manifest) :
          \E steps \in {postInstall(ks, bundles)} :
             /\ runnerCalls' = [i \in 1..Len(steps) |-> Call(steps[i].argv, NoErr)]
             /\ spawned' = IF Runner = "real"
                           THEN [i \in 1..Len(steps) |-> steps[i].argv] ELSE <<>>
             /\ wrappers' = IF Runner = "real" THEN execSteps(wrappers, steps)
                            ELSE wrappers
             /\ postLog' = Append(postLog,
                                  [calls |-> [i \in 1..Len(steps) |-> steps[i].argv],
                                   files |-> wrappers'])
    /\ ret' = Returned("PostInstall", NoErr, <<>>)
    /\ UNCHANGED <<provVars, planVars, pc, idx, errs, nExec, stdout, logText,
                   running, outputs, cliVars, bundles, tuiVars>>

\* values of the raw entries drawn for PostInstall
IdA == <<"i", "a">>
IdB == <<"i", "b">>
BinW == <<"w">>
BinV == <<"v">>
MyCask == <<"m", "c">>
BinC == <<"c", "w">>
MyApp == <<"M", "y", ".", "a", "p", "p">>

\* the raw key k absent, or holding one of the strings vals
Opt(k, vals) == {EmptyMap} \cup {[x \in {k} |-> StrVal(v)] : v \in vals}
Merge(f, g) ==
    [x \in DOMAIN f \cup DOMAIN g |-> IF x \in DOMAIN f THEN f[x] ELSE g[x]]

\* raw entries around the flatpak wrapper: identifier and wrapper-binary
\* name absent, empty or set
FlatpakEntries ==
    {Merge(f, g) : f \in Opt("flatpak", {<<>>, IdA}),
                   g \in Opt("_bin:flatpak", {<<>>, BinW})}

\* raw entries around the cask wrapper: cask value, wrapper-binary name and
\* bundle name absent, empty or set
CaskEntries ==
    {Merge(Merge(f, g), h) : f \in Opt("cask", {<<>>, MyCask}),
                             g \in Opt("_bin:cask", {<<>>, BinC}),
                             h \in Opt("_app:cask", {<<>>, MyApp})}

FlatpakOf(id, bin) ==
    [k \in {"flatpak", "_bin:flatpak"} |-> StrVal(IF k = "flatpak" THEN id ELSE bin)]

\* the second entries of the two-key manifests: a flatpak entry with the
\* wrapper-binary name of the first one or with another one, the cask entry
SecondEntries ==
    {FlatpakOf(IdB, BinW), FlatpakOf(IdB, BinV),
     [k \in {"cask", "_bin:cask", "_app:cask"} |->
         StrVal(IF k = "cask" THEN MyCask ELSE IF k = "_bin:cask" THEN BinC ELSE MyApp)]}

\* the places an application bundle named My.app can be at
BundlePaths == {"/Applications/My.app", Home \o "/Applications/My.app"}

\* a Provisioner with a Raw Manifest of one entry, or of two entries the
\* first of which has a flatpak wrapper, on a host with or without bundles
InitPost ==
    /\ \/ \E raw \in FlatpakEntries \cup CaskEntries, ap \in {"", "SomeApp"} :
             /\ Manifest = [k \in {"a"} |-> Entry(<<>>, <<>>, ap, FALSE, NoInst)]
             /\ ManifestRaw = MapOf([k \in {"a"} |-> raw])
       \/ \E raw \in SecondEntries :
             /\ Manifest = [k \in {"a", "b"} |-> Entry(<<>>, <<>>, "", FALSE, NoInst)]
             /\ ManifestRaw = MapOf([k \in {"a", "b"} |->
                                        IF k = "a" THEN FlatpakOf(IdA, BinW) ELSE raw])
    /\ System \in {NilSys, CustomSys, MacSys}
    /\ Runner \in {"fake", "real"}
    /\ InstallerOrder = <<>>
    /\ LazyOnly = FALSE
    /\ DryRun = FALSE
    /\ DryRunLog = <<>>
    /\ Errors = <<>>
    /\ LogFile = ""
    /\ InitPlanVars /\ InitExecVars /\ InitPortVars /\ InitCliVars /\ InitTuiVars
    /\ bundles \in SUBSET BundlePaths
    /\ wrappers = EmptyMap
    /\ postLog = <<>>

NextPost == PostInstall

\* PostInstall called up to MaxPost times on an unchanged host
SpecPost == InitPost /\ [][NextPost]_vars

----------------------------------------------------------------------------
(* Provisioner CLI (cmd/provisioner) *)

\* the package-manager queries of GetInstalledPackages, by binary
QueryCommands ==
    << <<"dpkg", "-l">>, <<"brew", "list", "-1">>, <<"pipx", "list">>,
       <<"cargo", "install", "--list">>, <<"npm", "list", "-g", "--depth=0">> >>

\* hosts the CLI runs on: the package managers present and the package
\* names their queries report
CliEnvs ==
    {[managers |-> {}, names |-> {}],
     [managers |-> {"dpkg"}, names |-> {}],
     [managers |-> {"dpkg"}, names |-> {"b"}],
     [managers |-> {"dpkg", "brew", "pipx", "cargo", "npm"},
      names |-> {"a", "b", "c"}]}

\* dryRunRunner.Output returns the line "[dry-run] Would output: <cmd> <args>"
\* without error; of the five parsers the brew one takes the whole line as
\* a name and the cargo one its first word
DryRunNames == {"[dry-run] Would output: brew list -1", "[dry-run]"}

\* GetInstalledPackages(runner): the set of names as a map to true
GetInstalledPackages(kind, env) ==
    IF kind = "dryRun" THEN MapOf([n \in DryRunNames |-> TRUE])
    ELSE MapOf([n \in env.names |-> TRUE])

\* the processes the queries of GetInstalledPackages start
QuerySpawns(kind, env) ==
    IF kind = "dryRun" THEN <<>>
    ELSE SelectSeq(QueryCommands, LAMBDA q : q[1] \in env.managers)

\* manifests the CLI loads: the dependency shapes with the drawn scripts
\* and installer fields, b and c lazy
CliManifests ==
    {[k \in DOMAIN deps |->
         Entry(deps[k], IF k = "b" THEN ProfileScript(k) ELSE <<>>, "", k # "a",
               ProfileInst(k))] : deps \in {ChainDeps, MissingDeps}}

\* keys the CLI asks for: an --only list, or every key of the manifest in
\* the order the map iteration yields them
KeySelections(m) ==
    Requests \cup {ks \in SeqsUpTo(DOMAIN m, Cardinality(DOMAIN m)) :
                      Len(ks) = Cardinality(DOMAIN m) /\ Range(ks) = DOMAIN m}

InCli == cliPc \in {"headless", "tui"}

\* main: ensureSudo, flag parsing, and the choice of headlessMain or the TUI
CliMain ==
    /\ UNCHANGED <<postVars, tuiVars>>
    /\ cliPc = "main"
    /\ spawned' = << <<"sudo", "-v">> >>
    /\ cliPc' = IF flags.noTUI THEN "headless" ELSE "tui"
    /\ UNCHANGED <<provVars, planVars, execVars, runnerCalls, stdout, logText,
                   running, outputs, flags>>

\* app.LoadManifest fails: headlessMain exits with 1, the TUI goroutine
\* reports the error and is done
CliLoadFailed ==
    /\ UNCHANGED <<postVars, tuiVars>>
    /\ InCli /\ Runner = "nil"
    /\ cliPc' = IF cliPc = "headless" THEN "exit1" ELSE "tuiDone"
    /\ UNCHANGED <<provVars, planVars, execVars, portVars, flags>>

\* headlessMain / the goroutine of model.Init up to PlanProvision: the
\* manifest is loaded, the keys are selected, the installed packages are
\* queried through dryRunRunner or realSystemRunner, and the Provisioner is
\* built without a System, with that runner (headless) or with
\* tuiExecRunner (TUI), and with LazyOnly from --lazy
CliSetup(m, ks, env) ==
    /\ UNCHANGED <<postVars, tuiVars>>
    /\ InCli /\ Runner = "nil"
    /\ \E queryRunner \in {IF flags.dryRun THEN "dryRun" ELSE "real"} :
          /\ installed' = GetInstalledPackages(queryRunner, env)
          /\ spawned' = spawned \o QuerySpawns(queryRunner, env)
          /\ Runner' = IF cliPc = "headless" THEN queryRunner ELSE "tui"
    /\ keys' = ks
    /\ Manifest' = m
    /\ System' = NilSys
    /\ LazyOnly' = flags.lazy
    /\ UNCHANGED <<ManifestRaw, InstallerOrder, DryRun, DryRunLog, Errors,
                   LogFile, expanded, plan, planErr, execVars, runnerCalls,
                   stdout, logText, running, outputs, cliVars>>

\* plan, err := prov.PlanProvision(keys, installed)
CliPlan ==
    /\ InCli /\ Runner # "nil"
    /\ PlanProvision(keys, installed)

\* planning failed: headlessMain exits with 1, the TUI goroutine is done
CliPlanFailed ==
    /\ UNCHANGED <<postVars, tuiVars>>
    /\ InCli /\ Planned /\ planErr # Nil
    /\ cliPc' = IF cliPc = "headless" THEN "exit1" ELSE "tuiDone"
    /\ UNCHANGED <<provVars, planVars, execVars, portVars, flags>>

\* err = prov.ExecutePlan(plan)
CliExecute ==
    /\ InCli /\ Planned /\ planErr = Nil /\ nExec = 0
    /\ ExecutePlanStart(plan)

\* ExecutePlan returned: headlessMain exits with 1 on an error and with 0
\* otherwise, the TUI goroutine reports the result and is done
CliExit ==
    /\ UNCHANGED <<postVars, tuiVars>>
    /\ InCli /\ Finished
    /\ cliPc' = IF cliPc = "tui" THEN "tuiDone"
                ELSE IF ret.err.nil THEN "exit0" ELSE "exit1"
    /\ UNCHANGED <<provVars, planVars, execVars, portVars, flags>>

\* the process before main runs: no Provisioner yet
InitCli ==
    /\ Manifest = EmptyMap
    /\ ManifestRaw = NilMap
    /\ System = NilSys
    /\ Runner = "nil"
    /\ InstallerOrder = <<>>
    /\ LazyOnly = FALSE
    /\ DryRun = FALSE
    /\ DryRunLog = <<>>
    /\ Errors = <<>>
    /\ LogFile = ""
    /\ InitPlanVars /\ InitExecVars /\ InitPostVars /\ InitTuiVars /\ InitPortVars
    /\ flags \in [dryRun : BOOLEAN, noTUI : BOOLEAN, lazy : BOOLEAN]
    /\ cliPc = "main"

NextCli ==
    \/ CliMain
    \/ CliLoadFailed
    \/ \E m \in CliManifests, env \in CliEnvs :
          \E ks \in KeySelections(m) : CliSetup(m, ks, env)
    \/ CliPlan
    \/ CliPlanFailed
    \/ CliExecute
    \/ InCli /\ ExecutePlanRun
    \/ \E outcome \in Outcomes : InCli /\ ExecutePlanStep(outcome)
    \/ InCli /\ ExecutePlanFinish
    \/ CliExit

\* the provisioner command: main, then headlessMain or the TUI goroutine
SpecCli == InitCli /\ [][NextCli]_vars

----------------------------------------------------------------------------
(* Provisioner TUI (model.Init, model.Update) *)

\* the command lines the Runner logs (logMsgStr of buildExecCmd)
CommandLines == {"brew install foo", "script echo Installed"}

\* what tuiExecRunner.Run dispatches for one command: the command line,
\* the lines of its stdout (info) and stderr (info2), its success or error
RunnerMsgs ==
    {Log("info", c) : c \in CommandLines}
        \cup {Log("info2", "warning: x")}
        \cup {Log("success", "Success: " \o c) : c \in CommandLines}
        \cup {Log("error", "Error: brew install foo: exit status 1")}

\* strings.Contains(text, sub) on the texts dispatched
Mentions(text, sub) ==
    /\ sub = "Installed"
    /\ text \in {"script echo Installed", "Success: script echo Installed"}

\* strings.Fields(text)[3] on the texts dispatched that mention
\* "Failed to install": there is none
FourthField(text) == <<>>

\* ch <- msg, but the message goes to the front of the buffer
send_lifo(ch, msg) == <<msg>> \o ch

\* ch <- msg on a buffered channel with room
send(ch, msg) == Append(ch, msg)

\* the sends the goroutine of model.Init can make next from position pos
\* after n Runner messages, each with the position it goes on to
GoSteps(pos, n) ==
    IF pos = "load"
    THEN {<<Log("error", "Failed to load manifest: open: no such file"), "done">>,
          <<Log("info", "Starting provisioning..."), "planning">>}
    ELSE IF pos = "planning"
    THEN {<<Log("info", "Planning..."), "plan">>}
    ELSE IF pos = "plan"
    THEN {<<Log("error", "Failed to plan provision: key not found"), "done">>,
          <<Log("info", "Nothing to install. All requested packages are already installed or filtered out."),
            "installing">>,
          <<Log("info", "Installing..."), "exec">>}
    ELSE IF pos = "installing"
    THEN {<<Log("info", "Installing..."), "final">>}
    ELSE IF pos = "exec"
    THEN {<<msg, "exec">> : msg \in IF n < MaxOut THEN RunnerMsgs ELSE {}}
            \cup {<<Log("error", "Provisioning failed: one or more errors"), "done">>,
                  <<Log("success", "Provisioning complete"), "done">>}
    ELSE IF pos = "final"
    THEN {<<Log("success", "Provisioning complete"), "done">>}
    ELSE IF pos = "done"
    THEN {<<doneMsg, "end">>}
    ELSE {}

\* the goroutine of model.Init up to and including its next channel send,
\* which waits while the buffer is full
Dispatch ==
    /\ \E st \in GoSteps(goroutine.pc, goroutine.n) :
          /\ Len(logChan) < LogChanCap
          /\ logChan' = send(logChan, st[1])
          /\ dispatched' = Append(dispatched, st[1])
          /\ goroutine' = [pc |-> st[2],
                           n |-> IF goroutine.pc = "exec" /\ st[2] = "exec"
                                 THEN goroutine.n + 1 ELSE goroutine.n]
    /\ UNCHANGED <<provVars, planVars, execVars, portVars, cliVars, postVars,
                   model, timer>>

\* the bottom position of the cursor: len(m.logs) - logPanelHeight, or 0
bottom(logs) == IF Len(logs) - logPanelHeight < 0 THEN 0 ELSE Len(logs) - logPanelHeight

\* handleKeyMsg, but "up" does not test the cursor
handleKeyMsg_upUnguarded(mo, key) ==
    IF key \in {"up", "k"}
    THEN [mo EXCEPT !.cursor = mo.cursor - 1, !.userScrolled = TRUE]
    ELSE IF key \in {"down", "j"}
    THEN IF mo.cursor < Len(mo.logs) - logPanelHeight
         THEN [mo EXCEPT !.cursor = mo.cursor + 1,
                         !.userScrolled =
                             IF mo.cursor + 1 >= Len(mo.logs) - logPanelHeight
                             THEN FALSE ELSE mo.userScrolled]
         ELSE mo
    ELSE IF key = "end"
    THEN [mo EXCEPT !.cursor = bottom(mo.logs), !.userScrolled = FALSE]
    ELSE mo

\* handleKeyMsg: the model it returns (the tea.Cmd is dropped by Update)
handleKeyMsg(mo, key) ==
    IF key \in {"up", "k"}
    THEN IF mo.cursor > 0
         THEN [mo EXCEPT !.cursor = mo.cursor - 1, !.userScrolled = TRUE]
         ELSE mo
    ELSE IF key \in {"down", "j"}
    THEN IF mo.cursor < Len(mo.logs) - logPanelHeight
         THEN [mo EXCEPT !.cursor = mo.cursor + 1,
                         !.userScrolled =
                             IF mo.cursor + 1 >= Len(mo.logs) - logPanelHeight
                             THEN FALSE ELSE mo.userScrolled]
         ELSE mo
    ELSE IF key = "end"
    THEN [mo EXCEPT !.cursor = bottom(mo.logs), !.userScrolled = FALSE]
    ELSE mo

\* the summary counters of handleLogMsg
countMsg(mo, msg) ==
    IF msg.Level = "success" /\ Mentions(msg.Text, "Installed")
    THEN [mo EXCEPT !.succeeded = mo.succeeded + 1, !.attempted = mo.attempted + 1]
    ELSE IF msg.Level = "error" /\ Mentions(msg.Text, "Failed to install")
    THEN [mo EXCEPT !.failed = mo.failed + 1, !.attempted = mo.attempted + 1,
                    !.failedPkgs = mo.failedPkgs \o FourthField(msg.Text)]
    ELSE mo

\* handleLogMsg
handleLogMsg(mo, msg) ==
    LET counted == countMsg(mo, msg)
        logs == Append(mo.logs, msg)
    IN [counted EXCEPT
           !.logs = logs,
           !.status = IF msg.Text \in {"Planning...", "Installing..."}
                      THEN msg.Text ELSE mo.status,
           !.cursor = IF ~mo.userScrolled THEN bottom(logs) ELSE mo.cursor]

\* model.Init(): the goroutine is started and the first tick is armed
TuiInit ==
    /\ goroutine.pc = "none"
    /\ timer = "off"
    /\ goroutine' = [pc |-> "load", n |-> 0]
    /\ timer' = "tick"
    /\ UNCHANGED <<provVars, planVars, execVars, portVars, cliVars, postVars,
                   model, logChan, dispatched>>

\* Update(tickMsg): a non-blocking receive; a logMsg is handled and the
\* tick re-armed, a doneMsg arms the quit timer instead, an empty channel
\* re-arms the tick
UpdateTick ==
    /\ timer = "tick"
    /\ IF logChan = <<>>
       THEN UNCHANGED <<model, logChan, timer>>
       ELSE /\ logChan' = Tail(logChan)
            /\ IF Head(logChan) = doneMsg
               THEN timer' = "quit" /\ UNCHANGED model
               ELSE model' = handleLogMsg(model, Head(logChan)) /\ UNCHANGED timer
    /\ UNCHANGED <<provVars, planVars, execVars, portVars, cliVars, postVars,
                   goroutine, dispatched>>

\* the keys a user presses
Keys == {"up", "k", "down", "j", "end", "q", "ctrl+c", "x"}

\* Update(tea.KeyMsg): the model of handleKeyMsg, its command dropped
UpdateKey ==
    /\ timer \in {"tick", "quit"}
    /\ \E key \in Keys : model' = handleKeyMsg(model, key)
    /\ UNCHANGED <<provVars, planVars, execVars, portVars, cliVars, postVars,
                   logChan, goroutine, timer, dispatched>>

\* Update(quitNowMsg), two seconds after the doneMsg: tea.Quit
UpdateQuitNow ==
    /\ timer = "quit"
    /\ timer' = "off"
    /\ UNCHANGED <<provVars, planVars, execVars, portVars, cliVars, postVars,
                   model, logChan, goroutine, dispatched>>

\* the provisioner started in TUI mode: initialModelWithFlags, no Provisioner yet
InitTui ==
    /\ NewProvisioner(NilSys, EmptyMap, "tui")
    /\ InitPlanVars /\ InitExecVars /\ InitPortVars /\ InitCliVars /\ InitPostVars
    /\ InitTuiVars

NextTui ==
    \/ TuiInit
    \/ Dispatch
    \/ UpdateTick
    \/ UpdateKey
    \/ UpdateQuitNow

\* the TUI: the goroutine and the Update loop, in any interleaving
SpecTui == InitTui /\ [][NextTui]_vars

\* the same with the goroutine running whenever it can send and the pending
\* tick firing
SpecTuiLive == SpecTui /\ WF_vars(Dispatch) /\ WF_vars(UpdateTick)

----------------------------------------------------------------------------
(* Dependency relation of the manifest, stated independently of expandDeps *)

DepsOf(k) == IF k \in DOMAIN Manifest THEN Range(Manifest[k].Deps) ELSE {}

RECURSIVE ReachFrom(_)
\* the keys of S and every key reachable from them through Deps
ReachFrom(S) ==
    IF (S \cup UNION {DepsOf(k) : k \in S}) = S THEN S
    ELSE ReachFrom(S \cup UNION {DepsOf(k) : k \in S})

\* the direct and transitive dependencies of k
DepsClosure(k) == IF DepsOf(k) = {} THEN {} ELSE ReachFrom(DepsOf(k))

Acyclic == \A k \in DOMAIN Manifest : k \notin DepsClosure(k)

Requested == ReachFrom(Range(keys))

NoDuplicates(sq) == Cardinality(Range(sq)) = Len(sq)

Before(sq, x, y) ==
    \E i, j \in 1..Len(sq) : i < j /\ sq[i] = x /\ sq[j] = y

IsChainManifest ==
    /\ DOMAIN Manifest = {"a", "b", "c"}
    /\ \A k \in DOMAIN Manifest : Manifest[k].Deps = ChainDeps[k]

----------------------------------------------------------------------------
(* Dependency expansion *)

\* C1: on a manifest with acyclic Deps, for a request all of whose
\* requested and reachable keys exist, PlanProvision succeeds, the expanded
\* keys are exactly the reachable keys, each once, every direct and
\* transitive dependency of a key stands before that key, the plan has one
\* apt instruction per expanded key in that order, and the chain manifest
\* a -> b, c; b -> c requested as [a] expands to [c, b, a].
C1_ExpansionOrdersDependencies ==
    (Planned /\ Acyclic /\ Requested \subseteq DOMAIN Manifest) =>
        /\ planErr = Nil
        /\ Range(expanded) = Requested
        /\ NoDuplicates(expanded)
        /\ \A k \in Range(expanded) :
              \A d \in DepsClosure(k) : Before(expanded, d, k)
        /\ plan = [i \in 1..Len(expanded) |-> Instruction("apt", expanded[i])]
        /\ (IsChainManifest /\ keys = <<"a">>) => expanded = <<"c", "b", "a">>

\* the chain manifest was requested as [a] and expanded
C1_Witness ==
    /\ Planned /\ IsChainManifest /\ keys = <<"a">>
    /\ expanded = <<"c", "b", "a">>
    /\ Len(plan) = 3

\* a and b depend on each other and on nothing else
IsCycle(x, y) ==
    /\ x # y
    /\ {x, y} \subseteq DOMAIN Manifest
    /\ Manifest[x].Deps = <<y>>
    /\ Manifest[y].Deps = <<x>>

\* C3: when A depends on B and B on A, a request naming A and/or B is
\* expanded without error to A and B, each exactly once, and the plan has
\* exactly one instruction per key.
C3_CycleTerminatesOnceEach ==
    \A x, y \in KeyNames :
        (Planned /\ IsCycle(x, y) /\ keys # <<>> /\ Range(keys) \subseteq {x, y}) =>
            /\ planErr = Nil
            /\ Len(expanded) = 2
            /\ Range(expanded) = {x, y}
            /\ Len(plan) = 2
            /\ {plan[i].Package : i \in 1..Len(plan)} = {x, y}

\* the cycle a <-> b was requested with both keys and expanded
C3_Witness ==
    /\ Planned /\ IsCycle("a", "b") /\ keys = <<"a", "b">>
    /\ expanded = <<"b", "a">>

----------------------------------------------------------------------------
(* Planning errors and skip rules *)

\* C2: when a requested key, or a key reachable from one through Deps, is
\* not in the Manifest, PlanProvision returns an error and a nil plan,
\* whatever the installed set, the headless state and LazyOnly are.
C2_UnknownKeyAbortsPlan ==
    (Planned /\ ~(Requested \subseteq DOMAIN Manifest)) =>
        /\ planErr # Nil
        /\ plan = <<>>

\* a was requested, its dependency b names the missing key c, and the
\* existing keys a and b were not planned although neither is skipped
C2_Witness ==
    /\ Planned
    /\ DOMAIN Manifest = {"a", "b"}
    /\ keys = <<"a">>
    /\ ~installed.nil /\ \A k \in KeyNames : ~installed.m[k]
    /\ ~LazyOnly
    /\ planErr = NotFound("c")
    /\ plan = <<>>

\* the instructions the entry of key k can give rise to: its scripts and
\* the first value of each of its installer fields
OwnInstructions(k) ==
    {Instruction("script", Manifest[k].Script[i]) : i \in 1..Len(Manifest[k].Script)}
    \cup {Instruction(f, Str(Manifest[k].Inst[f][1])) : f \in DOMAIN Manifest[k].Inst}

\* the plan holds no instruction of key k
Unplanned(k) == \A i \in 1..Len(plan) : plan[i] \notin OwnInstructions(k)

IsInstalled(k) == ~installed.nil /\ installed.m[k]
IsHeadlessGUI(k) == System.present /\ System.headless /\ Manifest[k].App # ""
IsNonLazyUnderLazyOnly(k) == LazyOnly /\ ~Manifest[k].Lazy
Excluded(k) == IsInstalled(k) \/ IsHeadlessGUI(k) \/ IsNonLazyUnderLazyOnly(k)

\* the keys whose instructions make up the plan, in plan order
PlanOwners ==
    [i \in 1..Len(plan) |-> CHOOSE k \in DOMAIN Manifest : plan[i] \in OwnInstructions(k)]

\* C9: a key that is present and true in the installed set has no
\* instruction in the plan, every other expanded key that no skip rule
\* excludes has one; on the chain manifest with installed {b: true} the
\* request [a] is planned as the instructions of c, then those of a, and
\* with every key installed the plan is empty.
C9_InstalledKeyNotPlanned ==
    (Planned /\ planErr = Nil) =>
        /\ \A k \in DOMAIN Manifest : IsInstalled(k) => Unplanned(k)
        /\ \A k \in Range(expanded) : ~Excluded(k) => ~Unplanned(k)
        /\ (/\ IsChainManifest /\ keys = <<"a">>
            /\ \A k \in KeyNames : IsInstalled(k) <=> k = "b"
            /\ ~Excluded("a") /\ ~Excluded("c"))
           => /\ Range(PlanOwners) = {"c", "a"}
              /\ \A i, j \in 1..Len(plan) :
                    (PlanOwners[i] = "c" /\ PlanOwners[j] = "a") => i < j
        /\ (\A k \in DOMAIN Manifest : IsInstalled(k)) => plan = <<>>

\* the chain manifest was requested as [a] with only b installed, and the
\* plan holds the two scripts and the package of c and then the package of a
C9_Witness ==
    /\ Planned /\ IsChainManifest /\ keys = <<"a">>
    /\ \A k \in KeyNames : IsInstalled(k) <=> k = "b"
    /\ expanded = <<"c", "b", "a">>
    /\ Len(plan) = 4
    /\ PlanOwners = <<"c", "c", "c", "a">>

\* C10: when the System reports headless, no entry with a non-empty App
\* marker has an instruction in the plan, and when LazyOnly is set, no
\* entry with Lazy = false has one, whatever the installed set, the
\* installer order and the other fields of the entry are.
C10_HeadlessAndLazySkips ==
    Planned =>
        \A k \in DOMAIN Manifest :
            (IsHeadlessGUI(k) \/ IsNonLazyUnderLazyOnly(k)) => Unplanned(k)

\* headless and LazyOnly: a is a GUI entry, b is not lazy, both were
\* expanded and are not installed, and only c was planned
C10_Witness ==
    /\ Planned /\ IsChainManifest /\ keys = <<"a">>
    /\ System.present /\ System.headless /\ LazyOnly
    /\ Manifest["a"].App # "" /\ Manifest["a"].Lazy
    /\ Manifest["b"].App = "" /\ ~Manifest["b"].Lazy
    /\ ~installed.nil /\ \A k \in KeyNames : ~installed.m[k]
    /\ InstallerOrder = <<"brew", "apt">>
    /\ expanded = <<"c", "b", "a">>
    /\ plan # <<>> /\ Range(PlanOwners) = {"c"}

----------------------------------------------------------------------------
(* Plan execution *)

IsCommand(c) == ~IsAnnotation(c.argv)
Failed(c) == ~c.err.nil

\* the Run calls of the current ExecutePlan that are not annotations
Commands == SelectSeq(runnerCalls, IsCommand)

\* the errors the Runner returned in the current ExecutePlan, in call order
ReturnedErrors ==
    [i \in 1..Len(SelectSeq(Commands, Failed)) |-> SelectSeq(Commands, Failed)[i].err]

\* the call is the one for the instruction: its command is the type and
\* its last argument the package
IsRunOf(c, inst) ==
    /\ c.argv[1] = inst.Type
    /\ c.argv[Len(c.argv)] = inst.Package

\* C4: without DryRun, while ExecutePlan is in its loop the Runner has
\* been given exactly the instructions gone through so far, and when it
\* returns the Runner has been given every instruction of the plan exactly
\* once, in plan order, whichever of them failed.
C4_FailureDoesNotStopRun ==
    ~DryRun =>
        /\ pc = "exec" => Len(Commands) = idx
        /\ Finished =>
              /\ Len(Commands) = Len(plan)
              /\ \A i \in 1..Len(plan) : IsRunOf(Commands[i], plan[i])

\* a plan of three instructions was executed, the second failed and the
\* third was run all the same
C4_Witness ==
    /\ Finished /\ ~DryRun /\ Len(plan) = 3
    /\ Len(Commands) = 3
    /\ ~Failed(Commands[1]) /\ Failed(Commands[2]) /\ ~Failed(Commands[3])
    /\ IsRunOf(Commands[3], plan[3])

\* C5: ExecutePlan returns nil exactly when no Run of an instruction
\* returned an error; otherwise it returns one error wrapping exactly the
\* errors the Runner returned, in plan order.
C5_CombinedErrorIsExact ==
    Finished =>
        /\ ret.err.nil <=> \A i \in 1..Len(Commands) : ~Failed(Commands[i])
        /\ ret.err.errs = ReturnedErrors

\* of three instructions the first and the third failed, and the returned
\* error wraps those two errors in that order
C5_Witness ==
    /\ Finished /\ Len(plan) = 3 /\ Len(Commands) = 3
    /\ Failed(Commands[1]) /\ ~Failed(Commands[2]) /\ Failed(Commands[3])
    /\ ~ret.err.nil
    /\ ret.err.errs = <<Commands[1].err, Commands[3].err>>

\* C6 (as claimed): after an ExecutePlan in which k >= 1 instructions
\* failed, Errors holds exactly those k errors and AggregatedError() is
\* not nil; after ClearErrors() the list is empty and AggregatedError()
\* is nil.
C6_ErrorsListHoldsFailures ==
    /\ (Finished /\ ~ret.err.nil) => Errors = ReturnedErrors
    /\ (ret.op = "AggregatedError" /\ ReturnedErrors # <<>>) => ~ret.err.nil
    /\ ret.op = "ClearErrors" => Errors = <<>>

\* the last n elements of sq
LastN(sq, n) == SubSeq(sq, Len(sq) - n + 1, Len(sq))

\* "<Type> <Package>" for each of the first n instructions of the plan
LinesOf(n) == [i \in 1..n |-> plan[i].Type \o " " \o plan[i].Package]

\* C7: with DryRun set the Runner is never given a script or installer
\* instruction, each instruction gone through has added its line
\* "<Type> <Package>" at the end of the dry-run log, in plan order,
\* ExecutePlan returns nil, the log of a first run is exactly the lines of
\* its plan, and DryRunCommands() returns the log.
C7_DryRunOnlyLogs ==
    DryRun =>
        /\ Commands = <<>>
        /\ spawned = <<>>
        /\ pc = "exec" => LastN(DryRunLog, idx) = LinesOf(idx)
        /\ Finished =>
              /\ ret.err.nil
              /\ LastN(DryRunLog, Len(plan)) = LinesOf(Len(plan))
              /\ nExec = 1 => DryRunLog = LinesOf(Len(plan))
        /\ ret.op = "DryRunCommands" => ret.val = DryRunLog

\* the plan apt foo, script echo bar was executed once with DryRun and
\* DryRunCommands() returned its two lines
C7_Witness ==
    /\ DryRun /\ nExec = 1
    /\ plan = <<Instruction("apt", "foo"), Instruction("script", "echo bar")>>
    /\ ret.op = "DryRunCommands"
    /\ ret.val = <<"apt foo", "script echo bar">>

\* the lines the log file is said to get for the instruction of the call c
LogEntry(c) ==
    <<JoinWith(c.argv, " ")>> \o
    (IF c.err.nil THEN <<>> ELSE <<"[ERROR] " \o c.err.msg>>)

RECURSIVE LogEntries(_)
LogEntries(cs) ==
    IF cs = <<>> THEN <<>> ELSE LogEntry(Head(cs)) \o LogEntries(Tail(cs))

\* C15 (as claimed): when LogFile is set, a finished ExecutePlan has
\* appended to that file, for each instruction in plan order, the line
\* "<Type> <Package>" and, after it, a line "[ERROR] <message>" if the
\* instruction failed; instructions that succeeded have their line too.
C15_LogFileRecordsInstructions ==
    (Finished /\ LogFile # "" /\ ~DryRun) =>
        /\ Len(logText) >= Len(LogEntries(Commands))
        /\ LastN(logText, Len(LogEntries(Commands))) = LogEntries(Commands)

\* C20 (as claimed): during ExecutePlan the Runner receives instruction
\* commands only: as many Run calls as the plan has instructions when
\* DryRun is unset, the only call for a one-instruction apt plan being apt
\* with the package, and no Run call of any kind when DryRun is set.
C20_RunnerSeesOnlyInstructions ==
    Finished =>
        /\ Len(runnerCalls) = (IF DryRun THEN 0 ELSE Len(plan))
        /\ (~DryRun /\ plan = <<Instruction("apt", "foo")>>) =>
               runnerCalls[1].argv = <<"apt", "foo">>

----------------------------------------------------------------------------
(* Dry run of the provisioner CLI *)

\* C8 (as claimed): when the CLI is run with --dry-run, executing the plan
\* starts no process, in headless mode and in TUI mode alike.
C8_DryRunFlagSpawnsNothing ==
    (flags.dryRun /\ (pc = "exec" \/ Finished)) => spawned = <<>>

----------------------------------------------------------------------------
(* Installer resolution *)

\* the value v of a raw key can be used: a string, or a list that starts
\* with a string
Holds(m, k) ==
    /\ k \in DOMAIN m
    /\ \/ m[k].t = "str"
       \/ m[k].t = "list" /\ Len(m[k].l) > 0 /\ m[k].l[1].t = "str"

\* the string of the first key of chain that holds a value in m, as a
\* list of one string, or the empty list when no key holds one
FirstValue(m, chain) ==
    LET I == {i \in 1..Len(chain) : Holds(m, chain[i])}
    IN IF I = {} THEN <<>>
       ELSE LET v == m[chain[CHOOSE i \in I : \A j \in I : i <= j]]
            IN <<Str(IF v.t = "str" THEN v.s ELSE v.l[1].s)>>

ProbeID == IF System.present THEN System.id ELSE ""
ProbeOS == IF System.present THEN System.os ELSE ""
ProbeArch == IF System.present THEN System.arch ELSE ""

\* the documented order with an installer segment
InstallerChain(prefix, installer) ==
    << prefix \o ":" \o installer \o ":" \o ProbeID \o ":" \o ProbeArch,
       prefix \o ":" \o installer \o ":" \o ProbeID,
       prefix \o ":" \o installer \o ":" \o ProbeOS \o ":" \o ProbeArch,
       prefix \o ":" \o installer \o ":" \o ProbeOS,
       prefix \o ":" \o installer \o ":" \o ProbeArch,
       prefix \o ":" \o installer,
       prefix >>

\* the documented order of an installer type T while planning: prefix T,
\* no installer segment
TypeChain(T) ==
    << T \o ":" \o ProbeID \o ":" \o ProbeArch,
       T \o ":" \o ProbeID,
       T \o ":" \o ProbeOS \o ":" \o ProbeArch,
       T \o ":" \o ProbeOS,
       T \o ":" \o ProbeArch,
       T >>

HasRawEntry(k) == ~ManifestRaw.nil /\ k \in DOMAIN ManifestRaw.m

\* the installer preference order in force
PreferenceOrder ==
    IF InstallerOrder # <<>> THEN InstallerOrder ELSE DefaultInstallerOrder

\* the value of installer type T resolves for key k: through the raw entry
\* of k when a Raw Manifest is set, through the typed field otherwise
Resolves(k, T) ==
    IF ManifestRaw.nil
    THEN T \in DOMAIN Manifest[k].Inst /\ Len(Manifest[k].Inst[T]) > 0
    ELSE HasRawEntry(k) /\ FirstValue(ManifestRaw.m[k], TypeChain(T)) # <<>>

\* the installer types of the preference order that resolve for k, in order
ResolvingTypes(k) == SelectSeq(PreferenceOrder, LAMBDA T : Resolves(k, T))

\* the package-manager instructions of the plan, in plan order
PackageInstructions == SelectSeq(plan, LAMBDA i : i.Type # "script")

\* the one key a was requested, it has no dependencies and no skip rule
\* excludes it, and PlanProvision returned a plan
PlannedAlone ==
    /\ Planned /\ planErr = Nil /\ keys = <<"a">>
    /\ Manifest["a"].Deps = <<>>
    /\ ~Excluded("a")

ScriptsOf(k) ==
    [i \in 1..Len(Manifest[k].Script) |-> Instruction("script", Manifest[k].Script[i])]

\* C11 (as claimed): a key without dependencies that no skip rule excludes
\* is planned as exactly one package-manager instruction plus one script
\* instruction per declared script: plan length = 1 + number of scripts.
C11_OnePackagePlusScripts ==
    PlannedAlone =>
        /\ Len(PackageInstructions) = 1
        /\ Len(plan) = 1 + Len(Manifest["a"].Script)

\* C11 (amended): a key without dependencies that no skip rule excludes is
\* planned as one script instruction per declared script, in source order,
\* followed by one package-manager instruction when an installer type of
\* the preference order resolves for it and by none otherwise: plan length
\* = number of scripts, plus 1 only if an installer resolves.
C11_ScriptsPlusAtMostOnePackage ==
    PlannedAlone =>
        /\ Len(plan) = Len(Manifest["a"].Script)
                       + (IF ResolvingTypes("a") # <<>> THEN 1 ELSE 0)
        /\ SubSeq(plan, 1, Len(Manifest["a"].Script)) = ScriptsOf("a")
        /\ Len(PackageInstructions) = (IF ResolvingTypes("a") # <<>> THEN 1 ELSE 0)

\* the entry of a has two scripts and no installer field (the entry of
\* TestPlanProvisionScript), and its plan is the two scripts and nothing else
C11_Witness ==
    /\ PlannedAlone
    /\ ManifestRaw.nil
    /\ DOMAIN Manifest["a"].Inst = {}
    /\ plan = <<Instruction("script", "echo foo"), Instruction("script", "echo bar")>>

\* C12: for a key that is not skipped the plan holds one package-manager
\* instruction exactly when some installer type of the preference order
\* (InstallerOrder when non-empty, the default list otherwise) resolves,
\* and it is the instruction of the first such type: no later type adds a
\* second one.  With order [brew, apt] and both fields set it is the brew one.
C12_FirstResolvingInstallerWins ==
    PlannedAlone =>
        /\ Len(PackageInstructions) <= 1
        /\ ResolvingTypes("a") = <<>> => PackageInstructions = <<>>
        /\ ResolvingTypes("a") # <<>> =>
              /\ Len(PackageInstructions) = 1
              /\ PackageInstructions[1].Type = ResolvingTypes("a")[1]
        /\ (/\ InstallerOrder = <<"brew", "apt">>
            /\ Resolves("a", "brew") /\ Resolves("a", "apt"))
           => PackageInstructions[1].Type = "brew"

\* order [brew, apt], the typed entry has apt = foo-apt and brew = foo-brew
\* (TestPlanProvisionCustomInstallerOrder), and the one package-manager
\* instruction is brew foo-brew
C12_Witness ==
    /\ PlannedAlone
    /\ ManifestRaw.nil
    /\ InstallerOrder = <<"brew", "apt">>
    /\ DOMAIN Manifest["a"].Inst = {"apt", "brew"}
    /\ PackageInstructions = <<Instruction("brew", "foo-brew")>>

\* a direct call of getFieldByPriority("_bin", "apt") returns in this step
ResolverReturns ==
    /\ ret'.op = "getFieldByPriority"
    /\ ManifestRaw' = ManifestRaw

\* the key of the raw entry whose string the previous call returned
PreviousMatch == CHOOSE k \in Range(BinChain) : <<Str(RawString(k))>> = ret.val

\* C13: getFieldByPriority with an installer returns the value of the first
\* key, in the order prefix:installer:osID:arch, prefix:installer:osID,
\* prefix:installer:osFamily:arch, prefix:installer:osFamily,
\* prefix:installer:arch, prefix:installer, prefix, that holds a string or
\* a list starting with one; once the key that matched has been removed the
\* next call returns the value of the next such key after it in that order.
C13_ResolverPrefersMostSpecific ==
    [][ResolverReturns =>
          LET m == ManifestRaw.m["a"]
              chain == InstallerChain("_bin", "apt")
          IN /\ ret'.val = FirstValue(m, chain)
             /\ (/\ ret.op = "getFieldByPriority" /\ ret.val # <<>>
                 /\ PreviousMatch \notin DOMAIN m)
                => LET p == CHOOSE i \in 1..Len(chain) :
                               /\ chain[i] = PreviousMatch
                               /\ \A j \in 1..(i - 1) : chain[j] # PreviousMatch
                   IN ret'.val = FirstValue(m, SubSeq(chain, p + 1, Len(chain)))
       ]_vars

\* on the Debian x64 probe the most specific key _bin:apt:debian:x64 has
\* been removed from the raw entry, and the call returned the value of
\* _bin:apt:debian
C13_Witness ==
    /\ ret.op = "getFieldByPriority"
    /\ System = CustomSys
    /\ HasRawEntry("a")
    /\ "_bin:apt:debian:x64" \notin DOMAIN ManifestRaw.m["a"]
    /\ Holds(ManifestRaw.m["a"], "_bin:apt:debian")
    /\ ret.val = <<"val2">>

\* C14 (as claimed): a key of the Manifest without an entry in the Raw
\* Manifest, whether there is no Raw Manifest or it lacks the key, is
\* resolved through the installer fields of its typed entry and still gets
\* the package-manager instruction of its typed field.
C14_NoRawEntryFallsBackToTyped ==
    (PlannedAlone /\ ~HasRawEntry("a")) =>
        LET typed == SelectSeq(PreferenceOrder,
                               LAMBDA T : T \in DOMAIN Manifest["a"].Inst)
        IN typed # <<>> =>
              PackageInstructions =
                 <<Instruction(typed[1], Str(Manifest["a"].Inst[typed[1]][1]))>>

\* some string of the raw entry m has a whitespace character
Spaced(m) ==
    \E k \in DOMAIN m :
        m[k].t = "str" /\ \E i \in 1..Len(m[k].s) : IsSpace(m[k].s[i])

\* C19: while planning, an installer type T is resolved with prefix T and
\* no installer segment: the package is the value (here one without
\* whitespace) of the first key in the order T:osID:arch, T:osID,
\* T:osFamily:arch, T:osFamily, T:arch, T that holds one.  A raw entry with
\* only apt:debian:x64 = foo-x64 and apt = foo is planned as foo-x64 on a
\* Debian x64 probe and as foo on any other.
C19_PlanningChainHasNoInstallerSegment ==
    (PlannedAlone /\ HasRawEntry("a")) =>
        LET m == ManifestRaw.m["a"]
        IN /\ ~Spaced(m) =>
                 \A i \in 1..Len(PackageInstructions) :
                    <<PackageInstructions[i].Package>> =
                       FirstValue(m, TypeChain(PackageInstructions[i].Type))
           /\ (/\ DOMAIN m = {"apt:debian:x64", "apt"}
               /\ m["apt:debian:x64"] = StrVal(FooX64) /\ m["apt"] = StrVal(Foo))
              => PackageInstructions =
                    <<Instruction("apt", IF ProbeID = "debian" /\ ProbeArch = "x64"
                                         THEN "foo-x64" ELSE "foo")>>

\* the raw entry holds only apt:debian:x64 and apt, the probe is Debian
\* x64, and the planned package is foo-x64
C19_Witness ==
    /\ PlannedAlone /\ HasRawEntry("a")
    /\ System = CustomSys
    /\ DOMAIN ManifestRaw.m["a"] = {"apt:debian:x64", "apt"}
    /\ ManifestRaw.m["a"]["apt:debian:x64"] = StrVal(FooX64)
    /\ PackageInstructions = <<Instruction("apt", "foo-x64")>>

----------------------------------------------------------------------------
(* Shape of the plan *)

\* the package-manager instruction of key k: that of the first installer
\* type of the preference order whose typed field is set, if there is one
PackageOf(k) ==
    IF ResolvingTypes(k) = <<>> THEN <<>>
    ELSE <<Instruction(ResolvingTypes(k)[1],
                       Str(Manifest[k].Inst[ResolvingTypes(k)[1]][1]))>>

\* the block of key k: nothing when a skip rule excludes k, otherwise its
\* script instructions in source order and then its package-manager
\* instruction
BlockOf(k) == IF Excluded(k) THEN <<>> ELSE ScriptsOf(k) \o PackageOf(k)

RECURSIVE Blocks(_)
Blocks(ks) == IF ks = <<>> THEN <<>> ELSE BlockOf(Head(ks)) \o Blocks(Tail(ks))

\* every instruction of a dependency of a key stands before every
\* instruction of that key
DependenciesPlannedFirst ==
    \A i, j \in 1..Len(plan) :
        (PlanOwners[i] # PlanOwners[j]
         /\ PlanOwners[i] \in DepsClosure(PlanOwners[j])) => i < j

\* C18 (as claimed): the plan is the concatenation, in expansion order, of
\* one block per non-skipped key, each block being the key's script
\* instructions in source order followed by its at most one
\* package-manager instruction, and every instruction of a dependency
\* precedes every instruction of a key that depends on it.
C18_BlocksAndDependenciesFirst ==
    (Planned /\ planErr = Nil) =>
        /\ plan = Blocks(expanded)
        /\ DependenciesPlannedFirst

\* C18 (amended): the plan is the concatenation, in expansion order, of one
\* block per non-skipped key, each block being the key's script
\* instructions in source order followed by its at most one
\* package-manager instruction; when the Deps of the manifest are acyclic,
\* every instruction of a dependency precedes every instruction of a key
\* that depends on it.
C18_BlocksInExpansionOrder ==
    (Planned /\ planErr = Nil) =>
        /\ plan = Blocks(expanded)
        /\ Acyclic => DependenciesPlannedFirst

\* the chain manifest was requested as [a] with order [brew, apt] and
\* nothing skipped: the plan is the two scripts and the brew package of c,
\* the script and the brew package of b, and the apt package of a
C18_Witness ==
    /\ Planned /\ planErr = Nil /\ IsChainManifest /\ keys = <<"a">>
    /\ InstallerOrder = <<"brew", "apt">>
    /\ \A k \in KeyNames : ~Excluded(k)
    /\ plan = <<Instruction("script", "echo c1"), Instruction("script", "echo c2"),
                Instruction("brew", "c"),
                Instruction("script", "echo b"), Instruction("brew", "bw"),
                Instruction("apt", "a")>>

----------------------------------------------------------------------------
(* Installed packages *)

\* GetInstalledPackages has returned
Queried == ret.op = "GetInstalledPackages"

\* the identifiers the output of manager m's query parses to
Parsed(m) == managerInstalled(m, [out |-> outputs[m].out, err |-> FALSE])

\* the managers whose query returned an error
Erred == {m \in Range(ManagerNames) : outputs[m].err}

\* every query printed the first two lines of the sample output
TwoLinesEach == \A m \in Range(ManagerNames) : Len(outputs[m].out) = 2

\* C17: GetInstalledPackages never fails and returns, each mapped to true,
\* exactly the identifiers parsed from the outputs of the queries that
\* returned no error: a query that returned an error contributes nothing,
\* whatever it printed, and takes nothing away from the others.  On the
\* sample outputs the result holds foo, bat, black and npm and not bar, and
\* without foo when only the dpkg query failed.
C17_UnionOfManagersThatAnswered ==
    Queried =>
        /\ ret.err.nil
        /\ ~installed.nil
        /\ DOMAIN installed.m = UNION {Parsed(m) : m \in Range(ManagerNames) \ Erred}
        /\ \A n \in DOMAIN installed.m : installed.m[n]
        /\ (TwoLinesEach /\ Erred = {}) =>
               /\ {"foo", "bat", "black", "npm"} \subseteq DOMAIN installed.m
               /\ "bar" \notin DOMAIN installed.m
        /\ (TwoLinesEach /\ Erred = {"dpkg"}) =>
               DOMAIN installed.m = {"bat", "black", "npm"}

\* the dpkg query printed its two lines and returned an error, the other
\* four answered, and the result is the names of those four
C17_Witness ==
    /\ Queried
    /\ TwoLinesEach /\ Erred = {"dpkg"}
    /\ Parsed("dpkg") = {"foo"}
    /\ DOMAIN installed.m = {"bat", "black", "npm"}

----------------------------------------------------------------------------
(* Resolved values *)

\* the call PlanProvision([a]) on a raw entry with one spaced or plain
\* installer value has ended, by returning or by panicking
SpacedCallEnded ==
    /\ ret.op \in {"PlanProvision", "panic"}
    /\ keys = <<"a">>
    /\ ~IsInstalled("a")
    /\ HasRawEntry("a") /\ ManifestRaw.m["a"] \in SpacedEntries

HasWhitespace(v) == \E i \in 1..Len(v) : IsSpace(v[i])

\* C21 (as claimed): for apt, apk, dnf, zypper and yum a resolved value
\* that contains whitespace, of any kind and at any place, is planned as
\* the instruction whose Package is the last whitespace-delimited token of
\* the value; every other value is planned unchanged.
C21_WhitespaceValueCutToLastToken ==
    SpacedCallEnded =>
        LET m == ManifestRaw.m["a"]
            T == CHOOSE t \in DOMAIN m : TRUE
            v == m[T].s
        IN /\ ret.op = "PlanProvision"
           /\ IF T \in {"apt", "apk", "dnf", "zypper", "yum"} /\ HasWhitespace(v)
              THEN Fields(v) # <<>> =>
                      plan = <<Instruction(T, Str(Fields(v)[Len(Fields(v))]))>>
              ELSE plan = <<Instruction(T, Str(v))>>

\* a direct call of getFieldByPriority("_bin", "apt") returns in this step
\* for the raw entry m of the key a
ReturnsFor(m) ==
    /\ ResolverReturns
    /\ ~ManifestRaw.nil /\ "a" \in DOMAIN ManifestRaw.m
    /\ m = ManifestRaw.m["a"]

\* the keys of the walked chain that the entry m has
PresentKeys(m) == {k \in Range(InstallerChain("_bin", "apt")) : k \in DOMAIN m}

\* C22: what getFieldByPriority returns is the string of a key of the chain
\* that holds a string, or the first element of one that holds a non-empty
\* list starting with a string; a key holding such a value is found, a
\* value of any other type is never a match, and an entry whose only key
\* in the chain holds a number or another unusable value is not found.
C22_OnlyStringsAndStringListsMatch ==
    [][\A m \in {ManifestRaw.m[k] : k \in DOMAIN ManifestRaw.m} :
          ReturnsFor(m) =>
             /\ ret'.val # <<>> =>
                   \E k \in PresentKeys(m) :
                      \/ m[k].t = "str" /\ ret'.val = <<Str(m[k].s)>>
                      \/ /\ m[k].t = "list" /\ Len(m[k].l) > 0
                         /\ m[k].l[1].t = "str" /\ ret'.val = <<Str(m[k].l[1].s)>>
             /\ (\E k \in PresentKeys(m) : Holds(m, k)) => ret'.val # <<>>
             /\ (\A k \in PresentKeys(m) : ~Holds(m, k)) => ret'.val = <<>>
             /\ \A k \in PresentKeys(m) :
                   (PresentKeys(m) = {k} /\ m[k].t = "list" /\ Holds(m, k))
                      => ret'.val = <<Str(m[k].l[1].s)>>
       ]_vars

\* the only key of the chain left in the raw entry holds a number and the
\* call returned not found
C22_Witness ==
    /\ ret.op = "getFieldByPriority"
    /\ HasRawEntry("a")
    /\ PresentKeys(ManifestRaw.m["a"]) = {"_bin:apt"}
    /\ ManifestRaw.m["a"]["_bin:apt"] = NumVal
    /\ ret.val = <<>>

\* the place in the chain of the first key the entry m has
FirstPresent(m) ==
    LET chain == InstallerChain("_bin", "apt")
    IN CHOOSE i \in 1..Len(chain) :
          /\ chain[i] \in DOMAIN m
          /\ \A j \in 1..(i - 1) : chain[j] \notin DOMAIN m

\* C30: when the most specific key the entry has holds an unusable value (a
\* number, an empty list, a list that starts with a number),
\* getFieldByPriority does not answer not-found for that: it returns the
\* value of the next key down the chain that holds a usable one, and
\* not-found only when no later key does.
C30_UnusableValueIsPassedOver ==
    [][\A m \in {ManifestRaw.m[k] : k \in DOMAIN ManifestRaw.m} :
          (ReturnsFor(m) /\ PresentKeys(m) # {}) =>
             LET chain == InstallerChain("_bin", "apt")
                 p == FirstPresent(m)
             IN ~Holds(m, chain[p]) =>
                   ret'.val = FirstValue(m, SubSeq(chain, p + 1, Len(chain)))
       ]_vars

\* on the Debian x64 probe _bin:apt:debian:x64 holds an empty list and
\* _bin:apt a string, and the call returned the string of _bin:apt
C30_Witness ==
    /\ ret.op = "getFieldByPriority"
    /\ System = CustomSys
    /\ HasRawEntry("a")
    /\ DOMAIN ManifestRaw.m["a"] = MixedKeys
    /\ ManifestRaw.m["a"]["_bin:apt:debian:x64"] = ListVal(<<>>)
    /\ ManifestRaw.m["a"]["_bin:apt"] = StrVal(RawString("_bin:apt"))
    /\ ret.val = <<"val6">>

----------------------------------------------------------------------------
(* Skip rules and dependencies *)

\* C29: the skip rules never prune the expansion and are applied to each
\* expanded key on its own.  The expanded keys are the requested keys and
\* everything reachable from them, skipped or not; a key is planned
\* exactly when no skip rule excludes that key itself, so the dependencies
\* of a skipped key are planned under their own rules and a key is planned
\* although a dependency of it was skipped.  Under LazyOnly the chain
\* a -> b, c; b -> c with a and c lazy and b not is planned as c, then a.
C29_SkipsDoNotPruneDependencies ==
    (Planned /\ planErr = Nil) =>
        /\ Range(expanded) = Requested
        /\ \A k \in Range(expanded) :
              /\ Excluded(k) => Unplanned(k)
              /\ (~Excluded(k) /\ BlockOf(k) # <<>>) => ~Unplanned(k)
              /\ Excluded(k) =>
                    \A d \in DepsClosure(k) :
                       /\ d \in Range(expanded)
                       /\ (~Excluded(d) /\ BlockOf(d) # <<>>) => ~Unplanned(d)
        /\ (/\ IsChainManifest /\ keys = <<"a">> /\ LazyOnly
            /\ \A k \in KeyNames : ~IsInstalled(k) /\ ~IsHeadlessGUI(k)
            /\ Manifest["a"].Lazy /\ ~Manifest["b"].Lazy /\ Manifest["c"].Lazy)
           => /\ plan # <<>>
              /\ Range(PlanOwners) = {"c", "a"}

\* LazyOnly on the chain manifest with only b not lazy: b was expanded and
\* skipped, its dependency c and its dependent a were planned
C29_Witness ==
    /\ Planned /\ planErr = Nil /\ IsChainManifest /\ keys = <<"a">> /\ LazyOnly
    /\ \A k \in KeyNames : ~IsInstalled(k) /\ ~IsHeadlessGUI(k)
    /\ Manifest["a"].Lazy /\ ~Manifest["b"].Lazy /\ Manifest["c"].Lazy
    /\ expanded = <<"c", "b", "a">>
    /\ Unplanned("b")
    /\ Range(PlanOwners) = {"c", "a"}

----------------------------------------------------------------------------
(* Post-install wrappers *)

\* the raw entry of key k
RawOf(k) == ManifestRaw.m[k]

\* the commands of the Runner after PostInstall returned
PostCommands == [i \in 1..Len(runnerCalls) |-> runnerCalls[i].argv]

\* the strings the raw entries hold
ManifestStrings ==
    UNION {{Str(RawOf(k)[f].s) : f \in DOMAIN RawOf(k)} : k \in DOMAIN Manifest}

FlatpakId(k) == FirstValue(RawOf(k), TypeChain("flatpak"))
FlatpakBin(k) == FirstValue(RawOf(k), InstallerChain("_bin", "flatpak"))

\* both the flatpak identifier and the wrapper-binary name of k resolve to
\* non-empty strings
HasFlatpakWrapper(k) ==
    /\ FlatpakId(k) # <<>> /\ FlatpakId(k)[1] # ""
    /\ FlatpakBin(k) # <<>> /\ FlatpakBin(k)[1] # ""

FlatpakDir == Home \o "/.local/bin/flatpak"

\* mkdir -p of the directory, the shell write of the wrapper, chmod +x
FlatpakWrapperCommands(id, bin) ==
    << <<"mkdir", "-p", FlatpakDir>>,
       <<"sh", "-c", "echo '#!/usr/bin/env bash\\nflatpak run " \o id \o " $*' > '"
                        \o FlatpakDir \o "/" \o bin \o "'">>,
       <<"chmod", "+x", FlatpakDir \o "/" \o bin>> >>

\* argv is a command of some flatpak wrapper
IsFlatpakCommand(argv) ==
    \/ argv = <<"mkdir", "-p", FlatpakDir>>
    \/ \E id \in ManifestStrings, bin \in ManifestStrings \cup {""} :
          argv \in Range(FlatpakWrapperCommands(id, bin))

RECURSIVE FlatpakExpected(_)
FlatpakExpected(ks) ==
    IF ks = <<>> THEN <<>>
    ELSE (IF HasFlatpakWrapper(Head(ks))
          THEN FlatpakWrapperCommands(FlatpakId(Head(ks))[1], FlatpakBin(Head(ks))[1])
          ELSE <<>>) \o FlatpakExpected(Tail(ks))

\* C25: the flatpak-wrapper commands PostInstall issues are, entry by entry
\* in some order of the entries, exactly mkdir -p of <HOME>/.local/bin/flatpak,
\* the shell write of a wrapper running "flatpak run <id> $*" to <dir>/<bin>
\* and chmod +x of that file for every entry whose flatpak identifier and
\* wrapper-binary name both resolve to non-empty strings, and nothing for
\* any other entry
C25_FlatpakWrapperCommands ==
    ret.op = "PostInstall" =>
        \E ks \in KeyOrders(DOMAIN Manifest) :
            SelectSeq(PostCommands, IsFlatpakCommand) = FlatpakExpected(ks)

\* PostInstall returned after writing the flatpak wrapper of an entry
C25_Witness ==
    /\ ret.op = "PostInstall"
    /\ \E k \in DOMAIN Manifest : HasFlatpakWrapper(k)
    /\ \E i \in 1..Len(runnerCalls) : runnerCalls[i].argv = <<"mkdir", "-p", FlatpakDir>>

CaskValue(k) == FirstValue(RawOf(k), TypeChain("cask"))
CaskBin(k) == FirstValue(RawOf(k), InstallerChain("_bin", "cask"))
CaskApp(k) == FirstValue(RawOf(k), InstallerChain("_app", "cask"))

\* a cask value resolves for k, or the platform is macOS and the App marker
\* of k is non-empty
CaskTrigger(k) ==
    \/ CaskValue(k) # <<>>
    \/ ProbeID = "darwin" /\ Manifest[k].App # ""

\* the two applications directories
SystemApplications == "/Applications"
UserApplications == Home \o "/Applications"

\* the bundle named by k exists in one of the two applications directories
BundleExists(k) ==
    /\ CaskApp(k) # <<>>
    /\ \/ (SystemApplications \o "/" \o CaskApp(k)[1]) \in bundles
       \/ (UserApplications \o "/" \o CaskApp(k)[1]) \in bundles

CaskDir == Home \o "/.local/bin/cask"

\* mkdir -p of the directory, the shell write of the wrapper, chmod +x
CaskWrapperCommands(appPath, bin) ==
    << <<"mkdir", "-p", CaskDir>>,
       <<"sh", "-c", "echo '#!/usr/bin/env bash\\nopen '" \o appPath \o "' $*' > '"
                        \o CaskDir \o "/" \o bin \o "'">>,
       <<"chmod", "+x", CaskDir \o "/" \o bin>> >>

\* argv is a command of some cask wrapper
IsCaskCommand(argv) ==
    \/ argv = <<"mkdir", "-p", CaskDir>>
    \/ \E name \in ManifestStrings \cup {""}, bin \in ManifestStrings \cup {""},
          dir \in {SystemApplications, UserApplications} :
          argv \in Range(CaskWrapperCommands(dir \o "/" \o name, bin))

CaskCommands == SelectSeq(PostCommands, IsCaskCommand)

\* what a cask command does, without the text of the wrapper: the directory
\* made, a write, the file made executable
StepOf(argv) ==
    IF argv[1] = "sh" THEN <<"write">> ELSE <<argv[1], argv[Len(argv)]>>

CaskSteps == [i \in 1..Len(CaskCommands) |-> StepOf(CaskCommands[i])]

WrapperSteps(bin) ==
    << <<"mkdir", CaskDir>>, <<"write">>, <<"chmod", CaskDir \o "/" \o bin>> >>

\* the conditions of the statement, a value that resolves being any value
\* the resolver finds
WritesCask_anyValue(k) == CaskTrigger(k) /\ CaskBin(k) # <<>> /\ BundleExists(k)

RECURSIVE CaskSteps_anyValue(_)
CaskSteps_anyValue(ks) ==
    IF ks = <<>> THEN <<>>
    ELSE (IF WritesCask_anyValue(Head(ks)) THEN WrapperSteps(CaskBin(Head(ks))[1])
          ELSE <<>>) \o CaskSteps_anyValue(Tail(ks))

WritesCask(k) ==
    /\ CaskTrigger(k)
    /\ CaskBin(k) # <<>> /\ CaskBin(k)[1] # ""
    /\ CaskApp(k) # <<>> /\ CaskApp(k)[1] # ""
    /\ BundleExists(k)

RECURSIVE CaskStepsExpected(_)
CaskStepsExpected(ks) ==
    IF ks = <<>> THEN <<>>
    ELSE (IF WritesCask(Head(ks)) THEN WrapperSteps(CaskBin(Head(ks))[1])
          ELSE <<>>) \o CaskStepsExpected(Tail(ks))

Target(k) ==
    IF (SystemApplications \o "/" \o CaskApp(k)[1]) \in bundles
    THEN SystemApplications \o "/" \o CaskApp(k)[1]
    ELSE UserApplications \o "/" \o CaskApp(k)[1]

RECURSIVE CaskExpected(_)
CaskExpected(ks) ==
    IF ks = <<>> THEN <<>>
    ELSE (IF WritesCask(Head(ks))
          THEN CaskWrapperCommands(Target(Head(ks)), CaskBin(Head(ks))[1])
          ELSE <<>>) \o CaskExpected(Tail(ks))

C24_WitnessMissing ==
    /\ ret.op = "PostInstall"
    /\ \E k \in DOMAIN Manifest :
          /\ CaskTrigger(k) /\ CaskBin(k) # <<>> /\ CaskApp(k) # <<>>
          /\ CaskBin(k)[1] # "" /\ CaskApp(k)[1] # ""
          /\ ~BundleExists(k)
    /\ runnerCalls = <<>>

\* C26: of two PostInstall runs on the same manifest, environment and
\* filesystem, the second issues the same wrapper-writing commands as the
\* first (whatever the order of the entries) and leaves every wrapper file
\* as the first run left it
C26_PostInstallIdempotent ==
    Len(postLog) >= 2 =>
        /\ Range(postLog[2].calls) = Range(postLog[1].calls)
        /\ Len(postLog[2].calls) = Len(postLog[1].calls)
        /\ postLog[2].files = postLog[1].files

----------------------------------------------------------------------------
(* Provisioner TUI *)

\* max(0, len(logs) - logPanelHeight)
Bottom(n) == IF n > logPanelHeight THEN n - logPanelHeight ELSE 0

CursorInRange ==
    /\ 0 <= model.cursor
    /\ model.cursor <= Bottom(Len(model.logs))
    /\ model.userScrolled = FALSE <=> model.cursor = Bottom(Len(model.logs))

\* what "up" with a positive cursor, "down", "end" and a log message do
CursorStep ==
    model' # model =>
        \/ /\ model'.logs = model.logs
           /\ model.cursor > 0
           /\ model'.cursor = model.cursor - 1
           /\ model'.userScrolled = TRUE
        \/ /\ model'.logs = model.logs
           /\ model'.cursor = model.cursor + 1
           /\ model'.userScrolled =
                 IF model'.cursor = Bottom(Len(model.logs)) THEN FALSE
                 ELSE model.userScrolled
        \/ /\ model'.logs = model.logs
           /\ model'.cursor = Bottom(Len(model.logs))
           /\ model'.userScrolled = FALSE
        \/ /\ Len(model'.logs) = Len(model.logs) + 1
           /\ model'.userScrolled = model.userScrolled
           /\ model'.cursor = IF model.userScrolled THEN model.cursor
                              ELSE Bottom(Len(model'.logs))

\* C27: after any sequence of key and log messages the cursor is between 0
\* and max(0, len(logs) - logPanelHeight), and userScrolled is false exactly
\* when the cursor is at that bottom position; "up" with a positive cursor
\* decrements it and sets userScrolled, "down" increments it and clears
\* userScrolled on reaching the bottom, "end" moves it to the bottom and
\* clears userScrolled, a log message re-pins it to the bottom only while
\* userScrolled is false
C27_CursorWithinLogs == [](CursorInRange) /\ [][CursorStep]_vars

\* the user scrolled up from a bottom position of at least 2
C27_Witness ==
    /\ model.userScrolled
    /\ model.cursor >= 1
    /\ Len(model.logs) > logPanelHeight + 1

IsLog(msg) == msg # doneMsg
SentLogs == SelectSeq(dispatched, IsLog)
QueuedLogs == SelectSeq(logChan, IsLog)

\* every log message sent is in the logs or still in the channel, once and
\* in the order of sending
DeliveredInOrder == model.logs \o QueuedLogs = SentLogs

\* the goroutine can send exactly when it has a message to send and the
\* channel has room
BlocksOnlyWhenFull ==
    ENABLED Dispatch <=>
        /\ goroutine.pc \notin {"none", "end"}
        /\ Len(logChan) < LogChanCap

\* doneMsg is the last message sent, and it is handled (the quit timer
\* runs or has fired) only when every log message sent is in the logs
DoneLast ==
    /\ \A i \in 1..Len(dispatched) : dispatched[i] = doneMsg => i = Len(dispatched)
    /\ goroutine.pc = "end" <=> (dispatched # <<>> /\ dispatched[Len(dispatched)] = doneMsg)
    /\ (timer = "quit" \/ (timer = "off" /\ goroutine.pc # "none")) =>
           /\ goroutine.pc = "end"
           /\ logChan = <<>>
           /\ model.logs = SentLogs

\* most messages one run sends
MaxMsgs == MaxOut + 6

\* C28: every log message the goroutine sends on the channel is eventually
\* appended to model.logs, exactly once and in the order of sending; the
\* goroutine waits only while the channel is full; doneMsg is sent last and
\* is handled, starting the quit timer, only after every earlier log
\* message has been appended
C28_LogChannelDelivery ==
    /\ [](DeliveredInOrder /\ BlocksOnlyWhenFull /\ DoneLast)
    /\ \A i \in 1..MaxMsgs : (Len(SentLogs) >= i) ~> (Len(model.logs) >= i)

\* the channel is full, the goroutine has more to send, and the Update loop
\* has appended messages already
C28_Witness ==
    /\ Len(logChan) = LogChanCap
    /\ goroutine.pc \notin {"none", "end"}
    /\ Len(model.logs) >= 2

====
